---- MODULE Spec2Model ----
(***************************************************************************)
(* Server process supervisor (commands/runner.rs), the restart dispatch of *)
(* the task scheduler and its cron due-check (scheduler.rs).               *)
(*                                                                         *)
(* Threads of the supervisor model: the command thread "user" (Start and   *)
(* Stop calls, one at a time), the monitor threads started by successful   *)
(* Starts, and one scheduler restart-dispatch thread "disp".  Every step   *)
(* is one critical section, or one operation outside any lock, of the      *)
(* source.  A lock that is held from one step to the next is a variable    *)
(* (procLock, confLock); the explicit_stops lock is only ever taken for    *)
(* one statement and is never held while another lock is requested, so     *)
(* its critical sections are single steps.                                 *)
(*                                                                         *)
(* A child that has exited and whose handle no thread holds or watches any *)
(* more leaves the process table at once (Settle): its pid is free for the *)
(* operating system to give to a later child.                              *)
(***************************************************************************)
EXTENDS Integers, Sequences, FiniteSets

\* ---------------------------------------------------------------- bounds

\* child processes in the process table at the same time
MaxProc == 2

\* monitor threads alive at the same time
MaxMon == 2

\* longest cron expression, in fields, that the due-check is given
MaxFields == 6

\* ------------------------------------------------------------- constants

\* the wall clock stops at 14:32:00, given as the second of the day
MaxClock == 52320

\* how often the wall clock is set back during a run
MaxBack == 1

\* the number of calls of init_scheduler
MaxInit == 2

\* the number of tasks in scheduled_tasks.json
MaxTasks == 2

\* the number of lines written to the input of one child
MaxLines == 2

Ids == {"s1", "s2"}

\* the one server that the user and the scheduled tasks work on, where one is enough
Solo == {"s1"}
Pids == 1..MaxProc
Slots == 1..MaxMon
NoPid == 0
NoCfg == [id |-> "none", auto_restart |-> FALSE]
Threads == {"user", "disp"}
Free == "free"

VARIABLES
    processes,       \* ServerProcessState.processes: id -> pid of the Child, NoPid if absent
    explicit_stops,  \* ServerProcessState.explicit_stops
    configs,         \* ServerProcessState.configs: id -> ServerConfig, NoCfg if absent
    procLock,        \* holder of the processes mutex
    confLock,        \* holder of the configs mutex
    proc,            \* the operating system's process table: each spawned child with
                     \* the lines written to its input; exitMarked and byStop are
                     \* history, read by the properties only
    call,            \* per calling thread: the start/stop call in progress
    mon,             \* monitor threads
    disp,            \* the scheduler's restart dispatch thread
    hist,            \* history per id (read by the properties only)
    expr,            \* the cron expression as composed: its fields, separator, padding
    cron,            \* due-check input: the text of expr, a sequence of characters
    now,             \* due-check input: local time [hour, minute]
    due,             \* due-check output
    sched,           \* SchedulerState.running, the loop threads created, and each
                     \* caller of init_scheduler
    clock,           \* the wall clock: second of the day, and how often it was set back
    file,            \* scheduled_tasks.json: whether it can be read, and its task list
    tick,            \* the scheduler loop: position, `now`, the loaded `tasks`
    units,           \* dispatch threads that have not finished, per task kind
    fired,           \* history per task position: last stamp written, dispatch count
    emitted,         \* the events that the last step of runner.rs code emitted to the
                     \* window, in order
    reply,           \* what the last step completed: the operation it served from its
                     \* call to its return with arguments and result, or the return of
                     \* a monitor thread
    disk,            \* round trip: the text in scheduled_tasks.json
    list,            \* round trip: the task list in memory
    saved,           \* round trip (history): the lists saved and loaded so far
    launch           \* spawn_process_internal's command line: the target, the config,
                     \* the files of the server directory, the Command built

supVars == <<processes, explicit_stops, configs, procLock, confLock, proc,
             call, mon, disp, hist, emitted, reply>>
cronVars == <<expr, cron, now, due>>
schedVars == <<sched, clock, file, tick, units, fired>>
fileVars == <<disk, list, saved>>
launchVars == <<launch>>
otherVars == <<cronVars, schedVars, fileVars, launchVars>>
vars == <<processes, explicit_stops, configs, procLock, confLock, proc,
          call, mon, disp, hist, emitted, reply, expr, cron, now, due,
          sched, clock, file, tick, units, fired, disk, list, saved, launch>>

\* ------------------------------------------------------- data and helpers

\* a config that leaves auto_restart at its default
ServerConfig_default(id, ar) == [id |-> id, auto_restart |-> FALSE]

\* lines 217-225; auto_restart is the caller's option after unwrap_or(false)
ServerConfig(id, ar) == [id |-> id, auto_restart |-> ar]

IdleCall == [op |-> "none", id |-> "none", auto_restart |-> FALSE, pc |-> "idle",
             child |-> NoPid, res |-> "none", marked |-> FALSE]

\* what a monitor's poll found (history, read by the properties only): the result of
\* try_wait, and for an exit whether the id was marked as explicit stop when the child
\* exited and whether the child was spawned from a config with auto_restart
NoSaw == [status |-> "none", marked |-> FALSE, auto_restart |-> FALSE]

NoMon == [id |-> "none", pc |-> "none", child |-> NoPid, saw |-> NoSaw, cfg |-> NoCfg,
          new_child |-> NoPid]

Unborn == [id |-> "none", state |-> "unborn", stdin |-> <<>>, auto_restart |-> FALSE,
           exitMarked |-> FALSE, byStop |-> FALSE]

IdleDisp == [pc |-> "idle", id |-> "none"]

FreePids == {p \in Pids : proc[p].state = "unborn"}

NextPid == CHOOSE p \in FreePids : \A q \in FreePids : p <= q

FreeSlots == {m \in Slots : mon[m].pc = "none"}

NewSlot == CHOOSE m \in FreeSlots : \A n \in FreeSlots : m <= n

\* a lookup that never finds the key
contains_key_never(id) == FALSE

\* processes.contains_key(&id)
contains_key(id) == processes[id] # NoPid

\* Child::try_wait: Ok(Some(_)) "exited", Ok(None) "running", Err(_) "error"
try_wait(p) ==
    IF proc[p].state = "alive" THEN {"running", "error"} ELSE {"exited", "error"}

\* the child's process ends: its input pipe goes with it
exit(pr, p) ==
    [pr EXCEPT ![p].state = "exited", ![p].stdin = <<>>,
               ![p].exitMarked = (pr[p].id \in explicit_stops)]

\* Child::kill: ends a child that is still running, no effect on one that has exited
kill(pr, p) ==
    IF pr[p].state = "alive" THEN exit(pr, p) ELSE pr

\* writeln!(stdin, "{}", text) and format!("{}\n", text): the bytes written
writeln(text) == text \o "\n"

\* a write to the input pipe of child p fails once the child has exited
stdin_open(pr, p) == pr[p].state = "alive"

\* a write of `line` to the input of child p: reaches the child only while it runs
write_stdin(pr, p, line) ==
    IF pr[p].state = "alive" THEN [pr EXCEPT ![p].stdin = Append(@, line)] ELSE pr

\* some thread still holds or watches pid p after the step
Held(p) ==
    \/ \E i \in Ids : processes'[i] = p
    \/ \E t \in Threads : call'[t].child = p
    \/ \E m \in Slots : mon'[m].child = p \/ mon'[m].new_child = p

\* the step's process table pr, less the children that have exited and are held
\* by no thread
Settle(pr) ==
    proc' = [p \in Pids |-> IF pr[p].state = "exited" /\ ~Held(p) THEN Unborn ELSE pr[p]]

\* an event as the window receives it: `text` tells the log lines apart
Event(topic, id, text) == [topic |-> topic, id |-> id, text |-> text]

\* line 315
server_stopped(id) == Event("server-stopped", id, "none")

\* line 346
server_started(id) == Event("server-started", id, "none")

\* a log line that does not say what happened
server_log_blank(id, text) == Event("server-log", id, "none")

\* lines 327, 339, 353: a line on the topic server-log:{id}
server_log(id, text) == Event("server-log", id, text)

\* lines 72 and 112: the script and the managed-runtime paths of
\* spawn_process_internal emit one "debug-log" line before cmd.spawn()
debug_log == Event("debug-log", "none", "launching")

\* spawn_process_internal returns Err at line 43 before any emit, or at lines
\* 152-156 after the "debug-log" line
spawn_failure == {<<>>, <<debug_log>>}

\* spawn_process_internal returns Ok after the "debug-log" line, or without one
\* on the path of native execution (lines 140-143)
spawn_success == {<<>>, <<debug_log>>}

\* the step completed no operation
NoReply == [op |-> "none", id |-> "none", text |-> "none", res |-> "none",
            usage |-> "none"]

\* the step emits the events es and is not a whole operation
Emit(es) == emitted' = es /\ reply' = NoReply

\* the step emits nothing and is not a whole operation
Quiet == Emit(<<>>)

\* the step completed op(id, text), a call served from entry to return with result
\* res or the return of a thread, and emitted nothing
Served(op, id, text, res, usage) ==
    /\ reply' = [op |-> op, id |-> id, text |-> text, res |-> res, usage |-> usage]
    /\ emitted' = <<>>

\* ------------------------------------------------------------------ Init

SupInit ==
    /\ processes = [i \in Ids |-> NoPid]
    /\ explicit_stops = {}
    /\ configs = [i \in Ids |-> NoCfg]
    /\ procLock = Free
    /\ confLock = Free
    /\ proc = [p \in Pids |-> Unborn]
    /\ call = [t \in Threads |-> IdleCall]
    /\ mon = [m \in Slots |-> NoMon]
    /\ disp = IdleDisp
    /\ hist = [stopped |-> {}, finalExit |-> {}]
    /\ emitted = <<>>
    /\ reply = NoReply

CronIdle ==
    /\ expr = [fields |-> <<>>, sep |-> <<" ">>, pad |-> <<>>]
    /\ cron = <<>>
    /\ now = [hour |-> 0, minute |-> 0]
    /\ due = "none"

\* no init_scheduler call yet; scheduled_tasks.json does not exist, which loads
\* as the empty list
SchedIdle ==
    /\ sched = [running |-> FALSE, loops |-> 0, starter |-> [c \in 1..MaxInit |-> "idle"]]
    /\ clock = [t |-> 0, backs |-> 0]
    /\ file = [readable |-> TRUE, tasks |-> <<>>]
    /\ tick = [pc |-> "none", now |-> 0, tasks |-> <<>>, i |-> 0, loaded |-> "none",
               fired |-> {}, saves |-> 0]
    /\ units = [restart |-> 0, command |-> 0, late |-> FALSE]
    /\ fired = [i \in 1..MaxTasks |-> [at |-> 0, n |-> 0]]

\* no command line is being built
NoCommand == [strategy |-> "none", program |-> <<>>, args |-> <<>>, env |-> <<>>,
             logged |-> FALSE]

LaunchIdle ==
    launch = [pc |-> "none", os |-> "none", config |-> <<>>, dir |-> <<>>,
              cmd |-> NoCommand]

FileIdle ==
    /\ disk = <<>>
    /\ list = <<>>
    /\ saved = [pc |-> "none", first |-> <<>>, second |-> <<>>, changed |-> 0]

Init == SupInit /\ CronIdle /\ SchedIdle /\ FileIdle /\ LaunchIdle

\* ------------------------------------------------- start_server_direct

\* a Start for id is issued: history forgets the earlier Stop and terminal exit
StartIssued(h, id) ==
    [h EXCEPT !.stopped = @ \ {id}, !.finalExit = @ \ {id}]

\* lines 206-215: take the processes lock, reject when the key is present, else
\* reset the explicit stop flag; the processes guard lives until the return.
\* A Start that would start a monitor is issued only while fewer than MaxMon run.
StartLock(t, id, ar) ==
    /\ call[t].pc = "idle"
    /\ procLock = Free
    /\ contains_key(id) \/ FreeSlots # {}
    /\ IF contains_key(id)
       THEN /\ call' = [call EXCEPT ![t] = [IdleCall EXCEPT !.op = "start", !.id = id,
                            !.auto_restart = ar, !.pc = "ret", !.res = "AlreadyRunning"]]
            /\ UNCHANGED <<procLock, explicit_stops>>
       ELSE /\ call' = [call EXCEPT ![t] = [IdleCall EXCEPT !.op = "start", !.id = id,
                            !.auto_restart = ar, !.pc = "start_conf"]]
            /\ procLock' = t
            /\ explicit_stops' = explicit_stops \ {id}
    /\ UNCHANGED <<processes, configs, confLock, mon, disp, otherVars>>
    /\ Quiet
    /\ hist' = StartIssued(hist, id)
    /\ Settle(proc)

\* lines 217-230: store the config; configs.lock() waits while another guard is alive
StartConf(t) ==
    /\ call[t].pc = "start_conf"
    /\ confLock = Free
    /\ configs' = [configs EXCEPT ![call[t].id] = ServerConfig(call[t].id, call[t].auto_restart)]
    /\ call' = [call EXCEPT ![t].pc = "start_spawn"]
    /\ UNCHANGED <<processes, explicit_stops, procLock, confLock, mon, disp>>
    /\ UNCHANGED <<hist, otherVars>>
    /\ Quiet
    /\ Settle(proc)

\* lines 36-193: spawn_process_internal when it returns Ok(child)
spawn_process_internal(cfg, p) ==
    [proc EXCEPT ![p] = [Unborn EXCEPT !.id = cfg.id, !.state = "alive",
                                       !.auto_restart = cfg.auto_restart]]

\* lines 238-247: thread::spawn of monitor_server_loop for the registered child
spawn_monitor(id, p) ==
    [mon EXCEPT ![NewSlot] = [NoMon EXCEPT !.id = id, !.pc = "sleep"]]

\* lines 232-249: spawn (`?` returns the error and drops the processes guard),
\* register the handle, start the monitor thread, return
StartSpawn(t) ==
    /\ call[t].pc = "start_spawn"
    /\ \/ /\ FreePids # {}
          /\ processes' = [processes EXCEPT ![call[t].id] = NextPid]
          /\ mon' = spawn_monitor(call[t].id, NextPid)
          /\ call' = [call EXCEPT ![t].pc = "ret", ![t].res = "Started"]
          /\ UNCHANGED <<hist, otherVars>>
          /\ \E es \in spawn_success : Emit(es)
          /\ Settle(spawn_process_internal(configs[call[t].id], NextPid))
       \/ /\ call' = [call EXCEPT ![t].pc = "ret", ![t].res = "SpawnFailure"]
          /\ UNCHANGED <<processes, mon, hist, otherVars>>
          /\ \E es \in spawn_failure : Emit(es)
          /\ Settle(proc)
    /\ procLock' = Free
    /\ UNCHANGED <<explicit_stops, configs, confLock, disp>>

\* --------------------------------------------------- stop_server_direct

\* lines 371-375: mark as explicit stop (its own critical section)
StopMark(id) ==
    /\ call["user"].pc = "idle"
    /\ explicit_stops' = explicit_stops \cup {id}
    /\ call' = [call EXCEPT !["user"] = [IdleCall EXCEPT !.op = "stop", !.id = id,
                    !.pc = "stop_lock", !.marked = (id \notin explicit_stops)]]
    /\ UNCHANGED <<processes, configs, procLock, confLock, mon, disp>>
    /\ UNCHANGED <<hist, otherVars>>
    /\ Quiet
    /\ Settle(proc)

\* lines 377-384 and 404-406: take the processes lock, remove the handle and write
\* "stop" to its input, or fail when there is none; the guard lives until the return
StopLock ==
    /\ call["user"].pc = "stop_lock"
    /\ procLock = Free
    /\ UNCHANGED <<explicit_stops, configs, confLock, mon, disp, hist, otherVars>>
    /\ Quiet
    /\ LET id == call["user"].id
           p == processes[id]
       IN IF p = NoPid
          THEN /\ call' = [call EXCEPT !["user"].pc = "ret", !["user"].res = "NotRunning"]
               /\ UNCHANGED <<processes, procLock>>
               /\ Settle(proc)
          ELSE /\ processes' = [processes EXCEPT ![id] = NoPid]
               /\ call' = [call EXCEPT !["user"].pc = "stop_wait", !["user"].child = p,
                                       !["user"].marked = FALSE]
               /\ procLock' = "user"
               /\ Settle(write_stdin(proc, p, writeln("stop")))

\* the Stop call returns success for the handle p it removed
StopDone(pr, p) ==
    [pr EXCEPT ![p].byStop = TRUE]

\* lines 386-403: poll the removed child; a pass that finds it running before the
\* grace period is over sleeps and polls again (no change of state)
StopWait ==
    /\ call["user"].pc = "stop_wait"
    /\ LET id == call["user"].id
           p == call["user"].child
       IN \E r \in try_wait(p) :
            \/ /\ r = "exited"
               /\ call' = [call EXCEPT !["user"].pc = "ret", !["user"].res = "StoppedGracefully",
                                       !["user"].child = NoPid]
               /\ UNCHANGED <<processes, mon>>
               /\ Settle(StopDone(proc, p))
            \/ /\ r = "running"       \* start.elapsed().as_secs() > 10
               /\ call' = [call EXCEPT !["user"].pc = "ret", !["user"].res = "StoppedForced",
                                       !["user"].child = NoPid]
               /\ UNCHANGED <<processes, mon>>
               /\ Settle(StopDone(kill(proc, p), p))
            \/ /\ r = "error"
               /\ call' = [call EXCEPT !["user"].pc = "ret", !["user"].res = "Stopped",
                                       !["user"].child = NoPid]
               /\ UNCHANGED <<processes, mon>>
               /\ Settle(StopDone(kill(proc, p), p))
    /\ hist' = [hist EXCEPT !.stopped = @ \cup {call["user"].id}]
    /\ procLock' = Free
    /\ UNCHANGED <<explicit_stops, configs, confLock, disp, otherVars>>
    /\ Quiet

\* the command returns its result to the caller
UserReturn ==
    /\ call["user"].pc = "ret"
    /\ call' = [call EXCEPT !["user"] = IdleCall]
    /\ UNCHANGED <<processes, explicit_stops, configs, procLock, confLock, mon, disp>>
    /\ UNCHANGED <<hist, otherVars>>
    /\ Quiet
    /\ Settle(proc)

\* ----------------------------------------------------- the child process

\* a running child exits by itself (a crash, or its answer to "stop")
ProcessExit(p) ==
    /\ proc[p].state = "alive"
    /\ LET id == proc[p].id
       IN /\ hist' = [hist EXCEPT !.finalExit =
                         IF /\ processes[id] = p
                            /\ id \notin explicit_stops
                            /\ configs[id] # NoCfg
                            /\ ~configs[id].auto_restart
                         THEN @ \cup {id} ELSE @]
          /\ UNCHANGED <<processes, explicit_stops, configs, procLock, confLock, call,
                         mon, disp, otherVars>>
          /\ Quiet
          /\ Settle(exit(proc, p))

\* --------------------------------------------------- monitor_server_loop
\* An emit, a sleep and a branch on a local variable touch no shared state; each is
\* part of the step of the statement that follows or precedes it, as noted.

\* a poll that takes a missing handle for a failed try_wait
is_running_or_error(id) ==
    IF contains_key(id) THEN try_wait(processes[id]) ELSE {"error"}

\* lines 282-301: the match on procs.get_mut(&id): try_wait of the handle found, or
\* "absent" when there is none
is_running(id) ==
    IF contains_key(id) THEN try_wait(processes[id]) ELSE {"absent"}

\* lines 277-305: sleep, then look the id up under the processes lock;
\* line 298: return when the key is absent
MonPoll(m) ==
    /\ mon[m].pc = "sleep"
    /\ procLock = Free
    /\ LET p == processes[mon[m].id]
       IN \E r \in is_running(mon[m].id) :
             \/ /\ r = "absent"
                /\ mon' = [mon EXCEPT ![m] = NoMon]
                /\ Served("monitor_return", mon[m].id, "none", "none", "none")
             \/ /\ r = "running"
                /\ UNCHANGED mon
                /\ Quiet
             \/ /\ r = "exited"
                /\ mon' = [mon EXCEPT ![m].pc = "remove", ![m].child = p,
                                      ![m].saw = [status |-> "exited",
                                                  marked |-> proc[p].exitMarked,
                                                  auto_restart |-> proc[p].auto_restart]]
                /\ Quiet
             \/ /\ r = "error"
                /\ mon' = [mon EXCEPT ![m].pc = "remove", ![m].saw.status = "error"]
                /\ Quiet
    /\ UNCHANGED <<processes, explicit_stops, configs, procLock, confLock, call, disp>>
    /\ UNCHANGED <<hist, otherVars>>
    /\ Settle(proc)

\* lines 307-313: procs.remove(&id), whatever handle is registered now
MonRemove(m) ==
    /\ mon[m].pc = "remove"
    /\ procLock = Free
    /\ processes' = [processes EXCEPT ![mon[m].id] = NoPid]
    /\ mon' = [mon EXCEPT ![m].pc = "check_stop"]
    /\ UNCHANGED <<explicit_stops, configs, procLock, confLock, call, disp>>
    /\ UNCHANGED <<hist, otherVars>>
    /\ Quiet
    /\ Settle(proc)

\* the explicit-stop flag as it was when the child exited
was_explicit_stop_at_exit(m) == mon[m].saw.marked

\* lines 317-324: explicit_stops.contains(&id), under the lock of the set
was_explicit_stop(m) == mon[m].id \in explicit_stops

\* line 315: emit "server-stopped"; lines 317-324: was_explicit_stop;
\* lines 326-329: if so emit the "stopped (User Initiated)" line and leave the loop
MonCheckStop(m) ==
    /\ mon[m].pc = "check_stop"
    /\ mon' = IF was_explicit_stop(m)
              THEN [mon EXCEPT ![m] = NoMon]
              ELSE [mon EXCEPT ![m].pc = "check_conf", ![m].child = NoPid]
    /\ Emit(IF was_explicit_stop(m)
            THEN <<server_stopped(mon[m].id), server_log(mon[m].id, "user_initiated")>>
            ELSE <<server_stopped(mon[m].id)>>)
    /\ UNCHANGED <<processes, explicit_stops, configs, procLock, confLock, call, disp>>
    /\ UNCHANGED <<hist, otherVars>>
    /\ Settle(proc)

\* lines 331-339 and 357-363: clone the stored config; leave the loop unless it says
\* auto_restart, else emit the "crashed/stopped. Auto-restarting in 3s..." line
MonCheckConf(m) ==
    /\ mon[m].pc = "check_conf"
    /\ confLock = Free
    /\ LET cfg == configs[mon[m].id]
       IN IF cfg # NoCfg /\ cfg.auto_restart
          THEN /\ mon' = [mon EXCEPT ![m].pc = "respawn", ![m].cfg = cfg]
               /\ Emit(<<server_log(mon[m].id, "auto_restarting")>>)
          ELSE /\ mon' = [mon EXCEPT ![m] = NoMon]
               /\ Quiet
    /\ UNCHANGED <<processes, explicit_stops, configs, procLock, confLock, call, disp>>
    /\ UNCHANGED <<hist, otherVars>>
    /\ Settle(proc)

\* lines 341-346: sleep 3 seconds, spawn from the cloned config, emit "server-started";
\* lines 352-355: on Err emit the "Failed to auto-restart" line and leave the loop
MonRespawn(m) ==
    /\ mon[m].pc = "respawn"
    /\ \/ /\ FreePids # {}
          /\ mon' = [mon EXCEPT ![m].pc = "register", ![m].new_child = NextPid]
          /\ UNCHANGED <<processes, call>>
          /\ UNCHANGED <<hist, otherVars>>
          /\ \E es \in spawn_success : Emit(es \o <<server_started(mon[m].id)>>)
          /\ Settle(spawn_process_internal(mon[m].cfg, NextPid))
       \/ /\ mon' = [mon EXCEPT ![m] = NoMon]
          /\ UNCHANGED <<processes, call>>
          /\ UNCHANGED <<hist, otherVars>>
          /\ \E es \in spawn_failure :
                Emit(es \o <<server_log(mon[m].id, "failed_to_auto_restart")>>)
          /\ Settle(proc)
    /\ UNCHANGED <<explicit_stops, configs, procLock, confLock, disp>>

\* lines 347-350: procs.insert(id, new_child), then watch the new child
MonRegister(m) ==
    /\ mon[m].pc = "register"
    /\ procLock = Free
    /\ processes' = [processes EXCEPT ![mon[m].id] = mon[m].new_child]
    /\ mon' = [mon EXCEPT ![m] = [NoMon EXCEPT !.id = mon[m].id, !.pc = "sleep"]]
    /\ UNCHANGED <<explicit_stops, configs, procLock, confLock, call, disp>>
    /\ UNCHANGED <<hist, otherVars>>
    /\ Quiet
    /\ Settle(proc)

\* ------------------------- operations that hold the processes lock throughout

\* the command texts sent to a server
Texts == {"list"}

\* the command of a scheduled task: Option<String>
Payloads == {[some |-> FALSE, text |-> ""], [some |-> TRUE, text |-> "list"]}

\* a usage report that is an error for an id without handle
resource_usage_strict(id) ==
    IF ~contains_key(id)
    THEN {[res |-> "NotRunning", usage |-> "none"]}
    ELSE {[res |-> "Ok", usage |-> "measured"]}

\* runner.rs 466-499: the sum over the process and its children when a handle is
\* registered (a child that has exited may or may not be in the process table
\* still), else ResourceUsage { cpu: 0.0, ram: 0 }
resource_usage(id) ==
    IF ~contains_key(id)
    THEN {[res |-> "Ok", usage |-> "zero"]}
    ELSE IF proc[processes[id]].state = "alive"
         THEN {[res |-> "Ok", usage |-> "measured"]}
         ELSE {[res |-> "Ok", usage |-> "zero"], [res |-> "Ok", usage |-> "measured"]}

\* runner.rs 460-500: get_server_resource_usage
ResourceUsage(id) ==
    /\ procLock = Free
    /\ \E r \in resource_usage(id) : Served("usage", id, "none", r.res, r.usage)
    /\ UNCHANGED <<processes, explicit_stops, configs, procLock, confLock, call, mon, disp>>
    /\ UNCHANGED <<hist, otherVars>>
    /\ Settle(proc)

\* a send that reports success whether or not a handle is registered
send_result_ok(id) == "Ok"

\* runner.rs 424-430: Ok(()) after the write, the write's error, or
\* "Server not running or stdin unavailable"
send_result(id) ==
    IF ~contains_key(id) THEN "NotRunning"
    ELSE IF stdin_open(proc, processes[id]) THEN "Ok" ELSE "IOFailure"

\* runner.rs 417-431: send_server_command_direct; a registered handle always has
\* its input stream (only Stop and the restart dispatch take it, after the removal)
SendCommand(id, text) ==
    /\ procLock = Free
    /\ contains_key(id) => Len(proc[processes[id]].stdin) < MaxLines
    /\ Served("send", id, text, send_result(id), "none")
    /\ UNCHANGED <<processes, explicit_stops, configs, procLock, confLock, call, mon, disp>>
    /\ UNCHANGED <<hist, otherVars>>
    /\ IF contains_key(id)
       THEN Settle(write_stdin(proc, processes[id], writeln(text)))
       ELSE Settle(proc)

\* a dispatch that writes the bare command
command_line_bare(cmd) == cmd.text

\* scheduler.rs 137: format!("{}\n", cmd)
command_line(cmd) == writeln(cmd.text)

\* scheduler.rs 132-141: the dispatch unit of a "command" task for server_id with
\* command_payload cmd; the result of the write is dropped
CommandUnit(id, cmd) ==
    /\ procLock = Free
    /\ contains_key(id) => Len(proc[processes[id]].stdin) < MaxLines
    /\ Served("command_task", id, IF cmd.some THEN cmd.text ELSE "none", "none", "none")
    /\ UNCHANGED <<processes, explicit_stops, configs, procLock, confLock, call, mon, disp>>
    /\ UNCHANGED <<hist, otherVars>>
    /\ IF cmd.some /\ contains_key(id)
       THEN Settle(write_stdin(proc, processes[id], command_line(cmd)))
       ELSE Settle(proc)

\* a drain that leaves the children running
kill_none(pr, ps) == pr

\* lib.rs 120-123: child.kill() for each drained handle
kill_all(pr, ps) ==
    [p \in Pids |-> IF p \in ps THEN kill(pr, p)[p] ELSE pr[p]]

\* lib.rs 114-127: RunEvent::ExitRequested: drain the registry under its lock and
\* kill every child
ExitHook ==
    /\ procLock = Free
    /\ processes' = [i \in Ids |-> NoPid]
    /\ Served("exit_hook", "none", "none", "none", "none")
    /\ UNCHANGED <<explicit_stops, configs, procLock, confLock, call, mon, disp>>
    /\ UNCHANGED <<hist, otherVars>>
    /\ Settle(kill_all(proc, {processes[i] : i \in Ids} \ {NoPid}))

\* ------------------------------- scheduler.rs: the "restart" dispatch unit

\* lines 86-94: a due restart task for id runs on its own thread; mark explicit stop
DispMark(id) ==
    /\ disp.pc = "idle"
    /\ explicit_stops' = explicit_stops \cup {id}
    /\ disp' = [pc |-> "d_remove", id |-> id]
    /\ UNCHANGED <<processes, configs, procLock, confLock, call, mon>>
    /\ UNCHANGED <<hist, otherVars>>
    /\ Quiet
    /\ Settle(proc)

\* lines 95-103: remove the handle, write "stop", kill
DispRemove ==
    /\ disp.pc = "d_remove"
    /\ procLock = Free
    /\ disp' = [disp EXCEPT !.pc = "d_conf"]
    /\ UNCHANGED <<explicit_stops, configs, procLock, confLock, call, mon>>
    /\ LET p == processes[disp.id]
       IN IF p = NoPid
          THEN /\ UNCHANGED processes
               /\ UNCHANGED <<hist, otherVars>>
               /\ Quiet
               /\ Settle(proc)
          ELSE /\ processes' = [processes EXCEPT ![disp.id] = NoPid]
               /\ UNCHANGED <<hist, otherVars>>
               /\ Quiet
               /\ Settle(kill(write_stdin(proc, p, writeln("stop")), p))

\* lines 105-110: sleep 5 seconds, lock configs, look the config and the window up;
\* the configs guard stays alive over the call of start_server_direct
DispConf ==
    /\ disp.pc = "d_conf"
    /\ confLock = Free
    /\ \/ /\ configs[disp.id] # NoCfg
          /\ disp' = [disp EXCEPT !.pc = "d_start"]
          /\ confLock' = "disp"
       \/ /\ disp' = IdleDisp     \* no stored config, or no "main" window
          /\ UNCHANGED confLock
    /\ UNCHANGED <<processes, explicit_stops, configs, procLock, call, mon>>
    /\ UNCHANGED <<hist, otherVars>>
    /\ Quiet
    /\ Settle(proc)

\* lines 117-127: start_server_direct with the stored config, on this thread
DispStart ==
    /\ disp.pc = "d_start"
    /\ StartLock("disp", configs[disp.id].id, configs[disp.id].auto_restart)

\* lines 128-131: the call returned; its result is dropped with the configs guard
DispReturn ==
    /\ disp.pc = "d_start"
    /\ call["disp"].pc = "ret"
    /\ disp' = IdleDisp
    /\ call' = [call EXCEPT !["disp"] = IdleCall]
    /\ confLock' = Free
    /\ UNCHANGED <<processes, explicit_stops, configs, procLock, mon>>
    /\ UNCHANGED <<hist, otherVars>>
    /\ Quiet
    /\ Settle(proc)

\* ----------------------------------------- scheduler.rs: is_time_to_run
\* A string is a sequence of one-character strings.  A u32 is kept as the pair
\* hi * Base + lo, so that the parse overflows where the source's does.

Base == 100000
U32MaxHi == 42949
U32MaxLo == 67295

DigitChars == <<"0", "1", "2", "3", "4", "5", "6", "7", "8", "9">>

\* char::is_whitespace, for the characters the expressions are made of
Whitespace == {" ", "\t"}

IsDigit(c) == \E d \in 1..10 : DigitChars[d] = c

\* char::to_digit(10) of a digit
to_digit(c) == (CHOOSE d \in 1..10 : DigitChars[d] = c) - 1

ParseErr == [ok |-> FALSE, hi |-> 0, lo |-> 0]

\* the digit loop of u32::from_str: checked_mul(10) then checked_add(digit);
\* a character that is no digit, or a value above u32::MAX, is an Err
RECURSIVE from_digits(_, _, _)
from_digits(s, hi, lo) ==
    IF s = <<>>
    THEN [ok |-> TRUE, hi |-> hi, lo |-> lo]
    ELSE IF ~IsDigit(Head(s))
         THEN ParseErr
         ELSE LET low == lo * 10 + to_digit(Head(s))
                  nhi == hi * 10 + (low \div Base)
                  nlo == low % Base
              IN IF nhi > U32MaxHi \/ (nhi = U32MaxHi /\ nlo > U32MaxLo)
                 THEN ParseErr
                 ELSE from_digits(Tail(s), nhi, nlo)

\* pattern.parse::<u32>(): an optional "+", then one digit or more
parse_u32(s) ==
    IF s = <<>>
    THEN ParseErr
    ELSE LET digits == IF Head(s) = "+" THEN Tail(s) ELSE s
         IN IF digits = <<>> THEN ParseErr ELSE from_digits(digits, 0, 0)

\* str::split_whitespace: the maximal runs of characters that are not whitespace;
\* parts are the runs read so far, word the run being read
RECURSIVE split_from(_, _, _)
split_from(parts, word, s) ==
    IF s = <<>>
    THEN IF word = <<>> THEN parts ELSE Append(parts, word)
    ELSE IF Head(s) \in Whitespace
         THEN split_from(IF word = <<>> THEN parts ELSE Append(parts, word), <<>>, Tail(s))
         ELSE split_from(parts, Append(word, Head(s)), Tail(s))

split_whitespace(s) == split_from(<<>>, <<>>, s)

\* a match that takes any number for the value
matches_any_number(pattern, value) ==
    IF pattern = <<"*">> THEN TRUE ELSE parse_u32(pattern).ok

\* lines 164-168
matches(pattern, value) ==
    IF pattern = <<"*">>
    THEN TRUE
    ELSE LET v == parse_u32(pattern)
         IN v.ok /\ v.hi = 0 /\ v.lo = value

\* lines 158-171: only the minute and the hour field are looked at
is_time_to_run(c, t) ==
    LET parts == split_whitespace(c)
    IN IF Len(parts) # 5
       THEN FALSE
       ELSE matches(parts[1], t.minute) /\ matches(parts[2], t.hour)

\* ---- the expressions the due-check is given

Star == [kind |-> "star", value |-> 0, style |-> "plain"]
Num(v, style) == [kind |-> "num", value |-> v, style |-> style]
Step == [kind |-> "step", value |-> 0, style |-> "plain"]
Huge == [kind |-> "huge", value |-> 0, style |-> "plain"]

\* the decimal digits of v
RECURSIVE Digits(_)
Digits(v) ==
    IF v < 10 THEN <<DigitChars[v + 1]>> ELSE Append(Digits(v \div 10), DigitChars[(v % 10) + 1])

\* the text of a field: "*", a number (plain, with a leading zero or with a plus
\* sign), the step "*/5", or the number 2^32 + 30
FieldText(f) ==
    CASE f.kind = "star" -> <<"*">>
      [] f.kind = "step" -> <<"*", "/", "5">>
      [] f.kind = "huge" -> <<"4", "2", "9", "4", "9", "6", "7", "3", "2", "6">>
      [] f.kind = "num" /\ f.style = "plain" -> Digits(f.value)
      [] f.kind = "num" /\ f.style = "zero" -> <<"0">> \o Digits(f.value)
      [] f.kind = "num" /\ f.style = "plus" -> <<"+">> \o Digits(f.value)

RECURSIVE Join(_, _)
Join(fields, sep) ==
    IF fields = <<>>
    THEN <<>>
    ELSE IF Len(fields) = 1
         THEN FieldText(fields[1])
         ELSE FieldText(Head(fields)) \o sep \o Join(Tail(fields), sep)

\* the text of an expression: its fields joined by the separator, padded at both ends
Text(e) == e.pad \o Join(e.fields, e.sep) \o e.pad

MinuteFields == {Star, Num(30, "plain"), Num(30, "zero"), Num(30, "plus"), Num(29, "plain"),
                 Step, Huge}
HourFields == {Star, Num(14, "plain"), Num(13, "zero"), Step}
OtherFields == {Star, Num(1, "plain"), Step}

FieldsAt(i) == IF i = 1 THEN MinuteFields ELSE IF i = 2 THEN HourFields ELSE OtherFields

RECURSIVE FieldSeqs(_)
FieldSeqs(n) ==
    IF n = 0 THEN {<<>>} ELSE {Append(fs, f) : fs \in FieldSeqs(n - 1), f \in FieldsAt(n)}

Exprs ==
    [fields : UNION {FieldSeqs(n) : n \in 0..MaxFields},
     sep : {<<" ">>, <<"\t", " ">>},
     pad : {<<>>, <<" ">>}]

\* chrono's Local::now(), its hour and minute
Times == [hour : {13, 14}, minute : {29, 30, 31}]

CronInit ==
    /\ SupInit
    /\ expr \in Exprs
    /\ cron = Text(expr)
    /\ now \in Times
    /\ due = "none"
    /\ SchedIdle
    /\ FileIdle
    /\ LaunchIdle

\* line 44: the scheduler's tick asks whether the task is due
DueCheck ==
    /\ due = "none"
    /\ due' = IF is_time_to_run(cron, now) THEN "due" ELSE "not_due"
    /\ UNCHANGED <<launchVars, supVars, expr, cron, now, schedVars, fileVars>>

CronNext == DueCheck

CronSpec == CronInit /\ [][CronNext]_vars

\* ------------------------------------------ scheduler.rs: the scheduler loop
\* The wall clock is the second of the day; every run stays within one day.

\* line 35: the loop sleeps 60 seconds between two ticks
TickSecs == 60

\* line 49: a task that ran less than 90 seconds ago is not fired again
Buffer == 90

\* the wall clock at the first call of init_scheduler: 14:29:00
Boot == 52140

\* thread::sleep returns after 60 seconds or later: on time, or 30 seconds late
Late == {0, 30}

Callers == 1..MaxInit
Kinds == {"restart", "command"}

hour(t) == t \div 3600
minute(t) == (t % 3600) \div 60
second(t) == t % 60

\* Local::now() as is_time_to_run reads it (line 170)
local(t) == [hour |-> hour(t), minute |-> minute(t)]

Two(n) == <<DigitChars[(n \div 10) + 1], DigitChars[(n % 10) + 1]>>
Today == <<"2", "0", "2", "6", "-", "0", "1", "-", "0", "5", "T">>
Zone == <<"+", "0", "0", ":", "0", "0">>

\* line 73: now.to_rfc3339()
to_rfc3339(t) ==
    Today \o Two(hour(t)) \o <<":">> \o Two(minute(t)) \o <<":">> \o Two(second(t)) \o Zone

NoTime == [ok |-> FALSE, at |-> 0]

\* line 46: chrono::DateTime::parse_from_rfc3339(t).ok(), for a text of the day
parse_from_rfc3339(s) ==
    LET b == Len(Today)
    IN IF /\ Len(s) = b + 8 + Len(Zone)
          /\ SubSeq(s, 1, b) = Today
          /\ SubSeq(s, b + 9, Len(s)) = Zone
          /\ \A k \in {1, 2, 4, 5, 7, 8} : IsDigit(s[b + k])
          /\ s[b + 3] = ":"
          /\ s[b + 6] = ":"
       THEN LET h == 10 * to_digit(s[b + 1]) + to_digit(s[b + 2])
                m == 10 * to_digit(s[b + 4]) + to_digit(s[b + 5])
                sec == 10 * to_digit(s[b + 7]) + to_digit(s[b + 8])
            IN IF h < 24 /\ m < 60 /\ sec < 60
               THEN [ok |-> TRUE, at |-> h * 3600 + m * 60 + sec]
               ELSE NoTime
       ELSE NoTime

\* Option<String>
None == [some |-> FALSE, text |-> <<>>]
Some(s) == [some |-> TRUE, text |-> s]

RestartKind == <<"r", "e", "s", "t", "a", "r", "t">>
CommandKind == <<"c", "o", "m", "m", "a", "n", "d">>

\* backup.rs lines 22-32
ScheduledTask(id, kind, cronx, en, lr) ==
    [id |-> id, name |-> id, task_type |-> kind, server_id |-> <<"s", "1">>,
     server_name |-> <<"s", "1">>, cron_expression |-> cronx, enabled |-> en,
     last_run |-> lr,
     command |-> IF kind = CommandKind THEN Some(<<"s", "a", "y">>) ELSE None]

EveryMinute == Text([fields |-> <<Star, Star, Star, Star, Star>>, sep |-> <<" ">>, pad |-> <<>>])
HalfPast ==
    Text([fields |-> <<Num(30, "plain"), Num(14, "plain"), Star, Star, Star>>,
          sep |-> <<" ">>, pad |-> <<>>])

\* the tasks a task file is composed of: never run, run at the moment the
\* scheduler is started, disabled, and with a last_run that is not a time
TaskPool ==
    {ScheduledTask(<<"a">>, RestartKind, EveryMinute, TRUE, None),
     ScheduledTask(<<"b">>, CommandKind, HalfPast, TRUE, None),
     ScheduledTask(<<"c">>, RestartKind, EveryMinute, TRUE, Some(to_rfc3339(Boot))),
     ScheduledTask(<<"d">>, CommandKind, EveryMinute, FALSE, None),
     ScheduledTask(<<"e">>, RestartKind, EveryMinute, TRUE, Some(<<"x">>))}

TaskLists == UNION {[1..n -> TaskPool] : n \in 0..MaxTasks}

\* spec: "load the full task list from the persistence collaborator"; a
\* persistence failure is an Err
load_scheduled_tasks_sync(f) ==
    IF f.readable THEN [ok |-> TRUE, tasks |-> f.tasks] ELSE [ok |-> FALSE, tasks |-> <<>>]

\* a call that runs the body at once
save_scheduled_tasks_polled(tasks) == [polled |-> TRUE, tasks |-> tasks]

\* backup.rs line 201: an async fn; the call builds the future and runs nothing
save_scheduled_tasks(tasks) == [polled |-> FALSE, tasks |-> tasks]

\* an awaited future runs the body of the function
await(fut) == [fut EXCEPT !.polled = TRUE]

\* backup.rs lines 205-207: the body writes the whole list
written(fut, f) == IF fut.polled THEN [f EXCEPT !.tasks = fut.tasks] ELSE f

\* a guard that checks the flag and leaves it as it is
guard_unset(r) == [proceed |-> ~r, running |-> r]

\* lines 26-28, in one critical section: give up if the flag is set, else set it
guard(r) == [proceed |-> ~r, running |-> TRUE]

\* lines 25-29
InitGuard(c) ==
    /\ sched.starter[c] = "idle"
    /\ LET g == guard(sched.running)
       IN sched' = [sched EXCEPT !.running = g.running,
                                 !.starter[c] = IF g.proceed THEN "spawning" ELSE "returned"]
    /\ UNCHANGED <<launchVars, supVars, cronVars, fileVars, clock, file, tick, units, fired>>

\* line 31: the loop thread is created and goes to sleep
InitSpawn(c) ==
    /\ sched.starter[c] = "spawning"
    /\ sched' = [sched EXCEPT !.loops = @ + 1, !.starter[c] = "spawned"]
    /\ tick' = [tick EXCEPT !.pc = "sleep"]
    /\ UNCHANGED <<launchVars, supVars, cronVars, fileVars, clock, file, units, fired>>

\* lines 35-37: sleep, then read the clock
TickWake ==
    /\ tick.pc = "sleep"
    /\ \E d \in Late :
          /\ clock.t + TickSecs + d <= MaxClock
          /\ clock' = [clock EXCEPT !.t = @ + TickSecs + d]
    /\ tick' = [tick EXCEPT !.pc = "load", !.now = clock'.t, !.loaded = "none",
                            !.fired = {}, !.saves = 0]
    /\ UNCHANGED <<launchVars, supVars, cronVars, fileVars, sched, file, units, fired>>

\* an error branch that goes on to scan the list loaded before
load_failed_scans(tk) == [tk EXCEPT !.pc = "scan", !.i = 1, !.loaded = "err"]

\* line 152: the error is printed; the loop goes on to the next sleep
load_failed(tk) == [tk EXCEPT !.pc = "sleep", !.loaded = "err"]

\* lines 39-40 and 152
TickLoad ==
    /\ tick.pc = "load"
    /\ LET r == load_scheduled_tasks_sync(file)
       IN tick' = IF r.ok
                  THEN [tick EXCEPT !.pc = "scan", !.tasks = r.tasks, !.i = 1, !.loaded = "ok"]
                  ELSE load_failed(tick)
    /\ UNCHANGED <<launchVars, supVars, cronVars, fileVars, sched, clock, file, units, fired>>

\* lines 46-52
recent_run(task, t) ==
    LET last_run_time == IF task.last_run.some
                         THEN parse_from_rfc3339(task.last_run.text)
                         ELSE NoTime
    IN IF last_run_time.ok THEN t - last_run_time.at < Buffer ELSE FALSE

\* a scan that does not look at the enabled flag
fires_disabled(task, t) ==
    /\ is_time_to_run(task.cron_expression, local(t))
    /\ ~recent_run(task, t)

\* lines 42, 44 and 54
fires(task, t) ==
    /\ task.enabled
    /\ is_time_to_run(task.cron_expression, local(t))
    /\ ~recent_run(task, t)

kind_of(task) ==
    IF task.task_type = RestartKind THEN "restart"
    ELSE IF task.task_type = CommandKind THEN "command" ELSE "other"

\* a clone that waits for the mutex to be free
clone_locked(lock) == lock = Free

\* lines 67-70: Arc::clone does not take the mutex it points to
clone(lock) == TRUE

\* lines 75 and 144: thread::spawn; the JoinHandle is dropped, the thread runs alone
spawn(us, kind) ==
    IF kind \in Kinds
    THEN [us EXCEPT ![kind] = @ + 1, !.late = @ \/ procLock = "disp"]
    ELSE us

\* lines 41-147, one task of the list
TickTask ==
    /\ tick.pc = "scan"
    /\ tick.i <= Len(tick.tasks)
    /\ LET i == tick.i
           task == tick.tasks[i]
       IN IF fires(task, tick.now)
          THEN /\ clone(procLock) /\ clone(confLock)
               /\ tick' = [tick EXCEPT !.tasks[i].last_run = Some(to_rfc3339(tick.now)),
                                       !.i = i + 1, !.fired = @ \cup {i}]
               /\ units' = spawn(units, kind_of(task))
               /\ fired' = [fired EXCEPT ![i] = [at |-> tick.now, n |-> @.n + 1]]
          ELSE /\ tick' = [tick EXCEPT !.i = i + 1]
               /\ UNCHANGED <<units, fired>>
    /\ UNCHANGED <<launchVars, supVars, cronVars, fileVars, sched, clock, file>>

\* line 150: `let _ = save_scheduled_tasks(tasks);` drops the future it was given
TickSave ==
    /\ tick.pc = "scan"
    /\ tick.i > Len(tick.tasks)
    /\ LET fut == save_scheduled_tasks(tick.tasks)
       IN /\ file' = written(fut, file)
          /\ tick' = [tick EXCEPT !.pc = "sleep", !.saves = @ + (IF fut.polled THEN 1 ELSE 0)]
    /\ UNCHANGED <<launchVars, supVars, cronVars, fileVars, sched, clock, units, fired>>

\* lines 86-131 with no stored config (or no main window), and lines 132-141:
\* the unit takes the processes lock, finds no handle, and ends
UnitFinish(k) ==
    /\ units[k] > 0
    /\ procLock = Free
    /\ k = "restart" => confLock = Free
    /\ units' = [units EXCEPT ![k] = @ - 1]
    /\ explicit_stops' = IF k = "restart" THEN explicit_stops \cup Solo ELSE explicit_stops
    /\ UNCHANGED <<processes, configs, procLock, confLock, proc, call, mon, disp, hist,
                   emitted, reply>>
    /\ UNCHANGED <<launchVars, cronVars, fileVars, sched, clock, file, tick, fired>>

\* lines 108-127 with a stored config: start_server_direct is called under the
\* configs guard, takes the processes lock (runner.rs 206), clears the mark and
\* locks configs again (runner.rs 228): the unit stays there with both locks
UnitDeadlock ==
    /\ units.restart > 0
    /\ procLock = Free
    /\ confLock = Free
    /\ \E id \in Solo :
          /\ configs[id] # NoCfg
          /\ explicit_stops' = explicit_stops \ {id}
    /\ procLock' = "disp"
    /\ confLock' = "disp"
    /\ UNCHANGED <<processes, configs, proc, call, mon, disp, hist, emitted, reply>>
    /\ UNCHANGED <<launchVars, cronVars, fileVars, schedVars>>

\* the user or a time service sets the wall clock back by two minutes
ClockBack ==
    /\ clock.backs < MaxBack
    /\ clock.t - 2 * TickSecs >= Boot
    /\ clock' = [t |-> clock.t - 2 * TickSecs, backs |-> clock.backs + 1]
    /\ UNCHANGED <<launchVars, supVars, cronVars, fileVars, sched, file, tick, units, fired>>

\* scheduled_tasks.json stops being readable, or is readable again
FileFault ==
    /\ tick.pc = "sleep"
    /\ file' = [file EXCEPT !.readable = ~@]
    /\ UNCHANGED <<launchVars, supVars, cronVars, fileVars, sched, clock, tick, units, fired>>

\* the state in which init_scheduler is called: no server is registered, a past
\* Start may have left a config, and the task file holds any list
SchedInit ==
    /\ LaunchIdle
    /\ processes = [i \in Ids |-> NoPid]
    /\ explicit_stops = {}
    /\ configs \in {[i \in Ids |-> NoCfg], [i \in Ids |-> ServerConfig(i, FALSE)]}
    /\ procLock = Free
    /\ confLock = Free
    /\ proc = [p \in Pids |-> Unborn]
    /\ call = [t \in Threads |-> IdleCall]
    /\ mon = [m \in Slots |-> NoMon]
    /\ disp = IdleDisp
    /\ hist = [stopped |-> {}, finalExit |-> {}]
    /\ emitted = <<>>
    /\ reply = NoReply
    /\ CronIdle
    /\ FileIdle
    /\ sched = [running |-> FALSE, loops |-> 0, starter |-> [c \in Callers |-> "idle"]]
    /\ clock = [t |-> Boot, backs |-> 0]
    /\ file \in [readable : {TRUE}, tasks : TaskLists]
    /\ tick = [pc |-> "none", now |-> 0, tasks |-> <<>>, i |-> 0, loaded |-> "none",
               fired |-> {}, saves |-> 0]
    /\ units = [restart |-> 0, command |-> 0, late |-> FALSE]
    /\ fired = [i \in 1..MaxTasks |-> [at |-> 0, n |-> 0]]

TickStep ==
    \/ TickWake
    \/ TickLoad
    \/ TickTask
    \/ TickSave

SchedNext ==
    \/ \E c \in Callers : InitGuard(c)
    \/ \E c \in Callers : InitSpawn(c)
    \/ TickWake
    \/ TickLoad
    \/ TickTask
    \/ TickSave
    \/ \E k \in Kinds : UnitFinish(k)
    \/ UnitDeadlock
    \/ ClockBack
    \/ FileFault

SchedSpec == SchedInit /\ [][SchedNext]_vars

\* ---- the loop beside its dispatch units only: a config is stored, the tasks of
\* the file have never run, the clock is left alone and the file stays readable;
\* the operating system runs the loop thread whenever it can take a step

LoopInit ==
    /\ SchedInit
    /\ \A id \in Ids : configs[id] # NoCfg
    /\ \A i \in DOMAIN file.tasks : ~file.tasks[i].last_run.some

LoopNext ==
    \/ \E c \in Callers : InitGuard(c)
    \/ \E c \in Callers : InitSpawn(c)
    \/ TickStep
    \/ \E k \in Kinds : UnitFinish(k)
    \/ UnitDeadlock

LoopSpec == LoopInit /\ [][LoopNext]_vars /\ WF_vars(TickStep)

\* ---- the scheduler loop, with the command layer saving an edited task list
\* while a tick is between its load and its save

\* the task that the user adds
Added == ScheduledTask(<<"n">>, CommandKind, EveryMinute, TRUE, None)

\* the lists that an edit of `tasks` leaves: a task added, the first task removed,
\* the first task modified
edits(tasks) ==
    (IF Len(tasks) < MaxTasks THEN {Append(tasks, Added)} ELSE {})
        \cup (IF tasks # <<>>
              THEN {Tail(tasks), [tasks EXCEPT ![1].enabled = ~@]}
              ELSE {})

\* backup.rs lines 200-210: the command save_scheduled_tasks, invoked by the task
\* editor with the list it loaded and edited, and awaited by the command runtime
EditTasks ==
    /\ tick.pc = "scan"
    /\ \E new \in edits(file.tasks) :
          file' = written(await(save_scheduled_tasks(new)), file)
    /\ UNCHANGED <<launchVars, supVars, cronVars, fileVars, sched, clock, tick, units, fired>>

EditNext ==
    \/ \E c \in Callers : InitGuard(c)
    \/ \E c \in Callers : InitSpawn(c)
    \/ TickStep
    \/ EditTasks
    \/ \E k \in Kinds : UnitFinish(k)
    \/ UnitDeadlock

EditSpec == LoopInit /\ [][EditNext]_vars

\* ------------------------ backup.rs: scheduled_tasks.json, written and read
\* The file is a sequence of characters, as the cron expression is.

Quote == "\""
Backslash == "\\"
Newline == "\n"
Tab == "\t"

NullText == <<"n", "u", "l", "l">>
TrueText == <<"t", "r", "u", "e">>
FalseText == <<"f", "a", "l", "s", "e">>

LowerCase == <<"a", "b", "c", "d", "e", "f", "g", "h", "i", "j", "k", "l", "m",
               "n", "o", "p", "q", "r", "s", "t", "u", "v", "w", "x", "y", "z">>
UpperCase == <<"A", "B", "C", "D", "E", "F", "G", "H", "I", "J", "K", "L", "M",
               "N", "O", "P", "Q", "R", "S", "T", "U", "V", "W", "X", "Y", "Z">>

to_uppercase(c) ==
    IF \E k \in 1..26 : LowerCase[k] = c
    THEN UpperCase[CHOOSE k \in 1..26 : LowerCase[k] = c]
    ELSE c

\* line 21: #[serde(rename_all = "camelCase")]
RECURSIVE camel_case(_, _)
camel_case(s, up) ==
    IF s = <<>> THEN <<>>
    ELSE IF Head(s) = "_" THEN camel_case(Tail(s), TRUE)
    ELSE <<IF up THEN to_uppercase(Head(s)) ELSE Head(s)>> \o camel_case(Tail(s), FALSE)

\* line 21: #[serde(rename_all = "camelCase")]
rename_all(s) == camel_case(s, FALSE)

\* lines 23-31: the fields of the struct, in the order of their declaration
StructFields ==
    <<[field |-> "id", name |-> <<"i", "d">>, type |-> "String"],
      [field |-> "name", name |-> <<"n", "a", "m", "e">>, type |-> "String"],
      [field |-> "task_type", name |-> <<"t", "a", "s", "k", "_", "t", "y", "p", "e">>,
       type |-> "String"],
      [field |-> "server_id", name |-> <<"s", "e", "r", "v", "e", "r", "_", "i", "d">>,
       type |-> "String"],
      [field |-> "server_name",
       name |-> <<"s", "e", "r", "v", "e", "r", "_", "n", "a", "m", "e">>, type |-> "String"],
      [field |-> "cron_expression",
       name |-> <<"c", "r", "o", "n", "_", "e", "x", "p", "r", "e", "s", "s", "i", "o", "n">>,
       type |-> "String"],
      [field |-> "enabled", name |-> <<"e", "n", "a", "b", "l", "e", "d">>, type |-> "bool"],
      [field |-> "last_run", name |-> <<"l", "a", "s", "t", "_", "r", "u", "n">>,
       type |-> "Option"],
      [field |-> "command", name |-> <<"c", "o", "m", "m", "a", "n", "d">>,
       type |-> "Option"]>>

\* a writer that copies every character as it is
escape_none(s) == s

\* serde_json writes a string with its quotes, backslashes and control
\* characters escaped
RECURSIVE escape(_)
escape(s) ==
    IF s = <<>> THEN <<>>
    ELSE LET c == Head(s)
         IN (IF c = Quote THEN <<Backslash, Quote>>
             ELSE IF c = Backslash THEN <<Backslash, Backslash>>
             ELSE IF c = Newline THEN <<Backslash, "n">>
             ELSE IF c = Tab THEN <<Backslash, "t">>
             ELSE <<c>>) \o escape(Tail(s))

json_string(s) == <<Quote>> \o escape(s) \o <<Quote>>

json_value(v, type) ==
    IF type = "String" THEN json_string(v)
    ELSE IF type = "bool" THEN (IF v THEN TrueText ELSE FalseText)
    ELSE IF v.some THEN json_string(v.text) ELSE NullText

RECURSIVE json_members(_, _)
json_members(task, k) ==
    IF k > Len(StructFields) THEN <<>>
    ELSE LET fd == StructFields[k]
         IN <<" ", " ", " ", " ">> \o json_string(rename_all(fd.name)) \o <<":", " ">>
               \o json_value(task[fd.field], fd.type)
               \o (IF k < Len(StructFields) THEN <<",">> ELSE <<>>) \o <<Newline>>
               \o json_members(task, k + 1)

json_object(task) ==
    <<" ", " ", "{", Newline>> \o json_members(task, 1) \o <<" ", " ", "}">>

RECURSIVE json_elements(_, _)
json_elements(tasks, k) ==
    IF k > Len(tasks) THEN <<>>
    ELSE json_object(tasks[k]) \o (IF k < Len(tasks) THEN <<",">> ELSE <<>>) \o <<Newline>>
            \o json_elements(tasks, k + 1)

\* backup.rs line 205: serde_json::to_string_pretty(&tasks)
to_string_pretty(tasks) ==
    IF tasks = <<>> THEN <<"[", "]">>
    ELSE <<"[", Newline>> \o json_elements(tasks, 1) \o <<"]">>

\* ---- reading: a value is text, null or a boolean; a failure has ok = FALSE
Fail == [ok |-> FALSE, v |-> <<>>, i |-> 0]
Str(s) == [t |-> "string", s |-> s, b |-> FALSE]
Null == [t |-> "null", s |-> <<>>, b |-> FALSE]
Bool(b) == [t |-> "bool", s |-> <<>>, b |-> b]

is_ws(c) == c \in {" ", Newline, Tab, "\r"}

RECURSIVE skip(_, _)
skip(s, i) == IF i <= Len(s) /\ is_ws(s[i]) THEN skip(s, i + 1) ELSE i

char_at(s, i) == IF i <= Len(s) THEN s[i] ELSE ""

starts(s, i, w) == i + Len(w) - 1 <= Len(s) /\ SubSeq(s, i, i + Len(w) - 1) = w

\* the characters of a string up to its closing quote, escapes undone; a raw
\* control character is an error
RECURSIVE read_string(_, _, _)
read_string(s, i, acc) ==
    IF i > Len(s) THEN Fail
    ELSE IF s[i] = Quote THEN [ok |-> TRUE, v |-> Str(acc), i |-> i + 1]
    ELSE IF s[i] = Backslash
    THEN LET e == char_at(s, i + 1)
         IN IF e = Quote THEN read_string(s, i + 2, Append(acc, Quote))
            ELSE IF e = Backslash THEN read_string(s, i + 2, Append(acc, Backslash))
            ELSE IF e = "/" THEN read_string(s, i + 2, Append(acc, "/"))
            ELSE IF e = "n" THEN read_string(s, i + 2, Append(acc, Newline))
            ELSE IF e = "t" THEN read_string(s, i + 2, Append(acc, Tab))
            ELSE IF e = "r" THEN read_string(s, i + 2, Append(acc, "\r"))
            ELSE Fail
    ELSE IF s[i] \in {Newline, Tab, "\r"} THEN Fail
    ELSE read_string(s, i + 1, Append(acc, s[i]))

parse_value(s, i) ==
    IF char_at(s, i) = Quote THEN read_string(s, i + 1, <<>>)
    ELSE IF starts(s, i, NullText) THEN [ok |-> TRUE, v |-> Null, i |-> i + 4]
    ELSE IF starts(s, i, TrueText) THEN [ok |-> TRUE, v |-> Bool(TRUE), i |-> i + 4]
    ELSE IF starts(s, i, FalseText) THEN [ok |-> TRUE, v |-> Bool(FALSE), i |-> i + 5]
    ELSE Fail

\* "key": value, ... } from position i on; acc is the pairs read so far
RECURSIVE parse_members(_, _, _)
parse_members(s, i, acc) ==
    IF char_at(s, i) # Quote THEN Fail
    ELSE LET key == read_string(s, i + 1, <<>>)
         IN IF ~key.ok \/ char_at(s, skip(s, key.i)) # ":" THEN Fail
            ELSE LET val == parse_value(s, skip(s, skip(s, key.i) + 1))
                 IN IF ~val.ok THEN Fail
                    ELSE LET j == skip(s, val.i)
                             pairs == Append(acc, [key |-> key.v.s, val |-> val.v])
                         IN IF char_at(s, j) = ","
                            THEN parse_members(s, skip(s, j + 1), pairs)
                            ELSE IF char_at(s, j) = "}"
                            THEN [ok |-> TRUE, v |-> pairs, i |-> j + 1]
                            ELSE Fail

parse_object(s, i) ==
    IF char_at(s, i) # "{" THEN Fail
    ELSE IF char_at(s, skip(s, i + 1)) = "}"
    THEN [ok |-> TRUE, v |-> <<>>, i |-> skip(s, i + 1) + 1]
    ELSE parse_members(s, skip(s, i + 1), <<>>)

values_of(pairs, key) == {k \in 1..Len(pairs) : pairs[k].key = key}

\* the derived Deserialize of the struct: each field by its renamed key; a key
\* given twice, a missing String or bool and a value of the wrong type are
\* errors; a missing or null Option is None; other keys are ignored
field_value(pairs, fd) ==
    LET at == values_of(pairs, rename_all(fd.name))
        val == pairs[CHOOSE k \in at : TRUE].val
    IN IF Cardinality(at) > 1 THEN Fail
       ELSE IF at = {}
       THEN (IF fd.type = "Option" THEN [ok |-> TRUE, v |-> None, i |-> 0] ELSE Fail)
       ELSE IF fd.type = "String"
       THEN (IF val.t = "string" THEN [ok |-> TRUE, v |-> val.s, i |-> 0] ELSE Fail)
       ELSE IF fd.type = "bool"
       THEN (IF val.t = "bool" THEN [ok |-> TRUE, v |-> val.b, i |-> 0] ELSE Fail)
       ELSE IF val.t = "null" THEN [ok |-> TRUE, v |-> None, i |-> 0]
       ELSE IF val.t = "string" THEN [ok |-> TRUE, v |-> Some(val.s), i |-> 0]
       ELSE Fail

deserialize(pairs) ==
    LET f(k) == field_value(pairs, StructFields[k])
    IN IF \A k \in 1..Len(StructFields) : f(k).ok
       THEN [ok |-> TRUE, i |-> 0,
             v |-> [id |-> f(1).v, name |-> f(2).v, task_type |-> f(3).v,
                    server_id |-> f(4).v, server_name |-> f(5).v,
                    cron_expression |-> f(6).v, enabled |-> f(7).v,
                    last_run |-> f(8).v, command |-> f(9).v]]
       ELSE Fail

\* object, object, ... ] from position i on
RECURSIVE parse_elements(_, _, _)
parse_elements(s, i, acc) ==
    LET obj == parse_object(s, i)
    IN IF ~obj.ok THEN Fail
       ELSE LET task == deserialize(obj.v)
                j == skip(s, obj.i)
            IN IF ~task.ok THEN Fail
               ELSE IF char_at(s, j) = ","
               THEN parse_elements(s, skip(s, j + 1), Append(acc, task.v))
               ELSE IF char_at(s, j) = "]"
               THEN [ok |-> TRUE, v |-> Append(acc, task.v), i |-> j + 1]
               ELSE Fail

\* backup.rs line 220: serde_json::from_str::<Vec<ScheduledTask>>(&content)
from_str(s) ==
    LET i == skip(s, 1)
        arr == IF char_at(s, i) # "[" THEN Fail
               ELSE IF char_at(s, skip(s, i + 1)) = "]"
               THEN [ok |-> TRUE, v |-> <<>>, i |-> skip(s, i + 1) + 1]
               ELSE parse_elements(s, skip(s, i + 1), <<>>)
    IN IF arr.ok /\ skip(s, arr.i) = Len(s) + 1 THEN arr ELSE Fail

\* the tasks a saved list is composed of: texts with a quote, a backslash and a
\* line break, the empty text, and a last_run that reads "null"
JsonPool ==
    {ScheduledTask(<<"a">>, RestartKind, EveryMinute, TRUE, None),
     ScheduledTask(<<"q", Quote, Backslash, Newline>>, CommandKind, HalfPast, FALSE,
                   Some(to_rfc3339(Boot))),
     ScheduledTask(<<>>, CommandKind, <<Tab, "/">>, TRUE, Some(NullText)),
     ScheduledTask(<<"a">>, RestartKind, EveryMinute, TRUE, Some(<<>>))}

JsonLists == UNION {[1..n -> JsonPool] : n \in 0..MaxTasks}

\* the values a last_run is changed to
Stamps == {None, Some(to_rfc3339(Boot + TickSecs)), Some(<<Quote>>)}

TaskFileInit ==
    /\ SupInit
    /\ CronIdle
    /\ SchedIdle
    /\ LaunchIdle
    /\ disk = <<>>
    /\ list \in JsonLists
    /\ saved = [pc |-> "edited", first |-> list, second |-> list, changed |-> 0]

\* backup.rs lines 201-210, awaited by the command runtime
Save ==
    /\ saved.pc \in {"edited", "stamped"}
    /\ LET fut == await(save_scheduled_tasks(list))
       IN disk' = IF fut.polled THEN to_string_pretty(fut.tasks) ELSE disk
    /\ saved' = [saved EXCEPT !.pc = IF saved.pc = "edited" THEN "saved" ELSE "resaved"]
    /\ UNCHANGED <<launchVars, supVars, cronVars, schedVars, list>>

\* backup.rs lines 213-223; an unreadable text leaves the caller with the error
Load ==
    /\ saved.pc \in {"saved", "resaved"}
    /\ LET r == from_str(disk)
       IN IF r.ok
          THEN /\ list' = r.v
               /\ saved' = [saved EXCEPT !.pc = IF saved.pc = "saved" THEN "loaded"
                                                 ELSE "reloaded"]
          ELSE /\ list' = <<>>
               /\ saved' = [saved EXCEPT !.pc = "failed"]
    /\ UNCHANGED <<launchVars, supVars, cronVars, schedVars, disk>>

\* scheduler.rs line 73, and the editors of the command layer: one task of the
\* loaded list gets another last_run
Stamp(k, lr) ==
    /\ saved.pc = "loaded"
    /\ k \in 1..Len(list)
    /\ list[k].last_run # lr
    /\ list' = [list EXCEPT ![k].last_run = lr]
    /\ saved' = [saved EXCEPT !.pc = "stamped", !.second = list', !.changed = k]
    /\ UNCHANGED <<launchVars, supVars, cronVars, schedVars, disk>>

TaskFileNext ==
    \/ Save
    \/ Load
    \/ \E k \in 1..MaxTasks, lr \in Stamps : Stamp(k, lr)

TaskFileSpec == TaskFileInit /\ [][TaskFileNext]_vars

\* ------------------------------ runner.rs: spawn_process_internal, the command line

\* str::ends_with
ends_with(s, suffix) ==
    /\ Len(s) >= Len(suffix)
    /\ SubSeq(s, Len(s) - Len(suffix) + 1, Len(s)) = suffix

\* Display of a u32
RECURSIVE to_string(_)
to_string(n) ==
    IF n < 10
    THEN <<DigitChars[n + 1]>>
    ELSE Append(to_string(n \div 10), DigitChars[(n % 10) + 1])

DotJar == <<".", "j", "a", "r">>
DotPhar == <<".", "p", "h", "a", "r">>
Java == <<"j", "a", "v", "a">>
Php == <<"p", "h", "p">>
BinPhp == <<"b", "i", "n", "/", "p", "h", "p">>
RunBat == <<"r", "u", "n", ".", "b", "a", "t">>
RunSh == <<"r", "u", "n", ".", "s", "h">>

\* Command::new(name): a program looked up as the operating system does
name(text) == [base |-> "none", rel |-> text]

\* server_path.join(rel)
join(rel) == [base |-> "server_path", rel |-> rel]

\* lines 102 and 121: format!("-Xmx{}M", ram)
Xmx(ram) == <<"-", "X", "m", "x">> \o to_string(ram) \o <<"M">>

\* line 122: format!("-Xms{}M", ram)
Xms(ram) == <<"-", "X", "m", "s">> \o to_string(ram) \o <<"M">>

\* lines 64-68: cfg!(target_os = "windows") selects the script looked for
has_run_script(os, dir) == IF os = "windows" THEN dir.run_bat ELSE dir.run_sh

\* line 100
known_extension(config) ==
    ends_with(config.jar_file, DotJar) \/ ends_with(config.jar_file, DotPhar)

\* lines 102-110: the override or the generic binary, then the bundled bin/php
\* in place of either for a .phar
final_bin(config, dir) ==
    LET bin == IF ends_with(config.jar_file, DotPhar) THEN Php ELSE Java
        java_bin == IF config.java_path.some THEN config.java_path.text ELSE bin
    IN  IF ends_with(config.jar_file, DotPhar) /\ dir.bin_php
        THEN join(BinPhp)
        ELSE name(java_bin)

\* lines 120-137: the arguments of the managed runtime
runtime_args(config) ==
    LET phar == ends_with(config.jar_file, DotPhar)
        ram == IF phar THEN <<>> ELSE <<Xmx(config.ram), Xms(config.ram)>>
        flags == IF config.startup_flags.some
                 THEN split_whitespace(config.startup_flags.text)
                 ELSE <<>>
        tail == IF phar
                THEN <<config.jar_file>>
                ELSE <<<<"-", "j", "a", "r">>, config.jar_file,
                       <<"n", "o", "g", "u", "i">>>>
    IN  ram \o flags \o tail

\* lines 70-143: the Command that cmd.spawn() is called on, and whether a
\* "debug-log" line was emitted on the way
build_command(os, config, dir) ==
    IF has_run_script(os, dir)
    THEN [strategy |-> "script",
          program |-> IF os = "windows" THEN name(<<"c", "m", "d">>)
                      ELSE name(<<"b", "a", "s", "h">>),
          args |-> IF os = "windows" THEN <<<<"/", "C">>, RunBat>> ELSE <<RunSh>>,
          env |-> <<Xmx(config.ram) \o <<" ">> \o Xms(config.ram)>>,
          logged |-> TRUE]
    ELSE IF known_extension(config)
         THEN [strategy |-> "runtime",
               program |-> final_bin(config, dir),
               args |-> runtime_args(config),
               env |-> <<>>,
               logged |-> TRUE]
         ELSE [strategy |-> "native",
               program |-> join(config.jar_file),
               args |-> <<>>,
               env |-> <<>>,
               logged |-> FALSE]

JarFiles == {<<"s", ".", "j", "a", "r">>, <<"p", ".", "p", "h", "a", "r">>,
             <<"b", "e", "d">>, <<"j", "a", "r">>}
JavaPaths == {None, Some(<<"/", "j", "d", "k">>)}
Flags == {None, Some(<<"-", "a", " ", " ", "-", "b">>)}
Rams == {512, 1024}
Targets == {"windows", "unix"}
Dirs == [run_bat : BOOLEAN, run_sh : BOOLEAN, bin_php : BOOLEAN]
LaunchConfigs == [jar_file : JarFiles, ram : Rams, java_path : JavaPaths,
                  startup_flags : Flags]

LaunchInit ==
    /\ SupInit
    /\ CronIdle
    /\ SchedIdle
    /\ FileIdle
    /\ launch \in [pc : {"ready"}, os : Targets, config : LaunchConfigs, dir : Dirs,
                   cmd : {NoCommand}]

\* spawn_process_internal up to cmd.spawn()
BuildCommand ==
    /\ launch.pc = "ready"
    /\ launch' = [launch EXCEPT !.pc = "built",
                                !.cmd = build_command(launch.os, launch.config,
                                                      launch.dir)]
    /\ UNCHANGED <<supVars, cronVars, schedVars, fileVars>>

LaunchNext == BuildCommand

LaunchSpec == LaunchInit /\ [][LaunchNext]_vars

\* ------------------------------------------------------------------ Next

User ==
    \/ \E id \in Solo, ar \in BOOLEAN : StartLock("user", id, ar)
    \/ \E id \in Solo : StopMark(id)
    \/ StopLock
    \/ StopWait
    \/ UserReturn

Start(t) ==
    \/ StartConf(t)
    \/ StartSpawn(t)

Monitor(m) ==
    \/ MonPoll(m)
    \/ MonRemove(m)
    \/ MonCheckStop(m)
    \/ MonCheckConf(m)
    \/ MonRespawn(m)
    \/ MonRegister(m)

Dispatch ==
    \/ \E id \in Solo : DispMark(id)
    \/ DispRemove
    \/ DispConf
    \/ DispStart
    \/ DispReturn

SupNext ==
    \/ User
    \/ \E t \in Threads : Start(t)
    \/ \E m \in Slots : Monitor(m)
    \/ Dispatch
    \/ \E p \in Pids : ProcessExit(p)

Next == SupNext

Spec == Init /\ [][Next]_vars

\* ---- a scheduled restart with no Start or Stop of the user during it: the user
\* only starts servers, and only while no restart dispatch is in progress; every
\* thread that can take a step takes one in the end

QuietStart ==
    /\ disp.pc = "idle"
    /\ \E id \in Solo, ar \in BOOLEAN : StartLock("user", id, ar)

QuietDispatch ==
    /\ call["user"].pc = "idle"
    /\ Dispatch

RestartNext ==
    \/ QuietStart
    \/ UserReturn
    \/ \E t \in Threads : Start(t)
    \/ \E m \in Slots : Monitor(m)
    \/ QuietDispatch
    \/ \E p \in Pids : ProcessExit(p)

RestartSpec ==
    /\ Init
    /\ [][RestartNext]_vars
    /\ WF_vars(QuietDispatch)
    /\ WF_vars(UserReturn)
    /\ \A t \in Threads : WF_vars(Start(t))
    /\ \A m \in Slots : WF_vars(Monitor(m))

\* ---- one server that the user starts once and may stop, its monitors, and the
\* operations that hold the processes lock from call to return

\* the user's first Start of a server of S in this session
FirstStart(S) ==
    \E id \in S, ar \in BOOLEAN : configs[id] = NoCfg /\ StartLock("user", id, ar)

CommandNext ==
    \/ FirstStart(Solo)
    \/ \E id \in Solo : StopMark(id)
    \/ StopLock
    \/ StopWait
    \/ UserReturn
    \/ Start("user")
    \/ \E m \in Slots : Monitor(m)
    \/ \E p \in Pids : ProcessExit(p)
    \/ \E id \in Solo : ResourceUsage(id)
    \/ \E id \in Solo, text \in Texts : SendCommand(id, text)
    \/ \E id \in Solo, cmd \in Payloads : CommandUnit(id, cmd)

CommandSpec == Init /\ [][CommandNext]_vars

\* ---- two servers that the user starts once each, their monitors, and the exit
\* hook (the threads run on until the process is gone)

PairNext ==
    \/ FirstStart(Ids)
    \/ UserReturn
    \/ Start("user")
    \/ \E m \in Slots : Monitor(m)
    \/ \E p \in Pids : ProcessExit(p)
    \/ ExitHook

PairSpec == Init /\ [][PairNext]_vars

\* ---------------------------------------------------------------- claims

\* C1: a Start(id) that finds id in the process registry returns the already-running
\* error and leaves the registered handle, the stored config, the explicit-stop set,
\* the monitors (none is started) and the children exactly as they were.
C1_StartRejectedWhenRegistered ==
    [][\A t \in Threads :
         (call[t].pc = "idle" /\ call'[t].op = "start" /\ processes[call'[t].id] # NoPid)
         => /\ call'[t].pc = "ret"
            /\ call'[t].res = "AlreadyRunning"
            /\ UNCHANGED <<processes, configs, explicit_stops, mon, proc>>]_vars

\* a Start was rejected while the id's handle is registered and its monitor watches
C1_Rejected ==
    \E t \in Threads :
        /\ call[t].op = "start"
        /\ call[t].res = "AlreadyRunning"
        /\ processes[call[t].id] # NoPid
        /\ \E m \in Slots : mon[m].id = call[t].id

\* C2: a Stop(id) that returns the not-running error has had no side effect: it has
\* not added id to the explicit-stop set.
C2_StopNotRunningNoEffect ==
    (call["user"].op = "stop" /\ call["user"].res = "NotRunning") => ~call["user"].marked

\* C3: once a Stop(id) has returned success and until a new Start(id) is issued, no
\* monitor that detected an exit registers a new handle for id.
C3_AbsentAfterStop ==
    [][\A m \in Slots :
         (mon[m].pc = "register" /\ mon'[m].pc = "sleep" /\ mon[m].saw.status = "exited")
         => mon[m].id \notin hist.stopped]_vars

\* C4: a monitor that detected the exit of a child whose id was in the explicit-stop
\* set when it exited does not respawn a process for the id.
C4_NoRespawnAfterMarkedExit ==
    \A m \in Slots :
        (mon[m].saw.status = "exited" /\ mon[m].saw.marked) => mon[m].new_child = NoPid

\* C5: when a monitor completes the restart cycle for the unexpected exit of a child
\* started with auto_restart, the handle it registered is the only child of the id
\* that is alive.
C5_OneAliveAfterRestart ==
    [][\A m \in Slots :
         ( /\ mon[m].pc = "register" /\ mon'[m].pc = "sleep"
           /\ mon[m].saw.status = "exited" /\ ~mon[m].saw.marked /\ mon[m].saw.auto_restart )
         => \A p \in Pids :
              (proc'[p].state = "alive" /\ proc'[p].id = mon[m].id)
              => processes'[mon[m].id] = p]_vars

\* C6: after the unexpected exit of a registered child whose stored config has
\* auto_restart = false and until a new Start(id) is issued, no monitor that detected
\* an exit registers a handle for id.
C6_NoReRegisterAfterFinalExit ==
    [][\A m \in Slots :
         (mon[m].pc = "register" /\ mon'[m].pc = "sleep" /\ mon[m].saw.status = "exited")
         => mon[m].id \notin hist.finalExit]_vars

\* C7: Stop marks the id and removes its handle as one atomic step: while a Stop has
\* marked and has not yet looked the handle up, no monitor, no Start and no scheduler
\* dispatch takes a step.
C7_StopMarkRemoveAtomic ==
    [][call["user"].pc = "stop_lock"
       => /\ UNCHANGED <<mon, disp>>
          /\ call'["disp"] = call["disp"]]_vars

\* C8: a monitor does not run its exit handling (registry removal, then the
\* server-stopped event and the final log line) for a handle that Stop removed and
\* returned success for.
C8_OneTeardownPerHandle ==
    \A m \in Slots :
        (mon[m].pc = "check_stop" /\ mon[m].child # NoPid) => ~proc[mon[m].child].byStop

\* C9: at most one monitor watches an id: no two monitors detect the exit of the
\* same child.
C9_OneMonitorPerId ==
    \A m, n \in Slots :
        (m # n /\ mon[m].pc = "remove" /\ mon[n].pc = "remove" /\ mon[m].child # NoPid)
        => mon[m].child # mon[n].child

\* C10: the due-check answers true exactly when the expression has five fields
\* separated by whitespace, the minute field is "*" or a number equal to the minute
\* of the local time, and the hour field is "*" or a number equal to its hour; the
\* answer is the same whatever the last three fields are.
C10_DueCheck ==
    due # "none" =>
        LET fields == expr.fields
            FieldMatches(f, v) == f.kind = "star" \/ (f.kind = "num" /\ f.value = v)
            asSpecified ==
                /\ Len(fields) = 5
                /\ FieldMatches(fields[1], now.minute)
                /\ FieldMatches(fields[2], now.hour)
        IN /\ (due = "due") <=> asSpecified
           /\ Len(fields) = 5 =>
                \A a, b, c \in OtherFields :
                    is_time_to_run(Text([expr EXCEPT !.fields =
                                            <<fields[1], fields[2], a, b, c>>]), now)
                    <=> (due = "due")

\* "30 14 * * *" was found due at 14:30
C10_DueAtHalfPastTwo ==
    /\ cron = <<"3", "0", " ", "1", "4", " ", "*", " ", "*", " ", "*">>
    /\ now = [hour |-> 14, minute |-> 30]
    /\ due = "due"

\* C19: while Stop waits out the shutdown period of the child it removed, it holds
\* none of the locks.
C19_StopWaitsUnlocked ==
    call["user"].pc = "stop_wait" => (procLock # "user" /\ confLock # "user")

\* C20 as stated: when a Start call for id returns, the config store holds for id the
\* configuration that was passed to that call.
C20_ConfigOfLastStart ==
    \A t \in Threads :
        (call[t].op = "start" /\ call[t].pc = "ret")
        => configs[call[t].id] = [id |-> call[t].id, auto_restart |-> call[t].auto_restart]

\* C20 as amended: when a Start call for id returns that was not rejected as already
\* running, the config store holds for id the configuration passed to it; and the
\* store changes in no other step than the store of a Start call, which writes the
\* configuration passed to that call under the call's id.
C20_ConfigOfLastAcceptedStart ==
    [][/\ \A t \in Threads :
            (call'[t].op = "start" /\ call'[t].pc = "ret" /\ call'[t].res # "AlreadyRunning")
            => configs'[call'[t].id] =
                   [id |-> call'[t].id, auto_restart |-> call'[t].auto_restart]
       /\ configs' # configs
            => \E t \in Threads :
                 /\ call[t].pc = "start_conf" /\ call'[t].pc = "start_spawn"
                 /\ configs' = [configs EXCEPT ![call[t].id] =
                        [id |-> call[t].id, auto_restart |-> call[t].auto_restart]]]_vars

\* a Start with auto_restart returned after a spawn failure: its config is stored
C20_StoredAfterSpawnFailure ==
    /\ call["user"].op = "start"
    /\ call["user"].res = "SpawnFailure"
    /\ call["user"].auto_restart
    /\ configs[call["user"].id].auto_restart

\* C15: a restart dispatch that found the target's config in the store terminates.
C15_RestartTerminates ==
    (disp.pc = "d_start") ~> (disp.pc = "idle")

\* C17: however many calls of init_scheduler there are, and however they
\* interleave, exactly one of them creates the scheduler loop; every other call
\* returns without creating one.
C17_OneLoop ==
    LET passed == {c \in Callers : sched.starter[c] \in {"spawning", "spawned"}}
    IN /\ Cardinality(passed) = IF \E c \in Callers : sched.starter[c] # "idle" THEN 1 ELSE 0
       /\ sched.loops = Cardinality({c \in Callers : sched.starter[c] = "spawned"})
       /\ sched.loops <= 1

\* one call created the loop and another call has returned without one
C17_SecondCallReturned ==
    /\ sched.loops = 1
    /\ \E c \in Callers : sched.starter[c] = "returned"

\* C18: a tick whose load of the task list fails dispatches nothing, stamps no
\* last_run and saves nothing; the loop goes back to sleep, and the tick after the
\* sleep starts with a load again.  A list is scanned only in a tick that loaded it.
C18_FailedLoadSkipsTick ==
    [][/\ (tick.pc = "load" /\ tick'.pc # "load" /\ ~load_scheduled_tasks_sync(file).ok)
            => /\ tick'.pc = "sleep"
               /\ units' = units
               /\ fired' = fired
               /\ file' = file
               /\ tick'.tasks = tick.tasks
               /\ tick'.fired = {}
               /\ tick'.saves = 0
       /\ (tick.pc = "sleep" /\ tick'.pc # "sleep") => tick'.pc = "load"
       /\ tick'.pc = "scan" => tick'.loaded = "ok"]_vars

\* the last tick failed to load the list and the loop is asleep again
C18_TickSkipped ==
    /\ tick.loaded = "err"
    /\ tick.pc = "sleep"

\* C16: the tick loop never waits for the processes, explicit-stop or configs lock
\* nor for a dispatched unit: whoever holds the locks and whatever the units do,
\* a tick that has started scans its list to the end and the loop sleeps again.
C16_LoopNeverWaits ==
    (tick.pc \in {"load", "scan"}) ~> (tick.pc = "sleep")

\* a task was dispatched while an earlier unit was stuck with the locks, and the
\* tick has ended
C16_DispatchedPastStuckUnit ==
    /\ units.late
    /\ procLock = "disp"
    /\ tick.pc = "sleep"

\* C11: a due task is not dispatched in a tick less than 90 seconds after its
\* last_run, and no task is dispatched twice within 90 seconds.
C11_NoRefireWithin90 ==
    [][\A i \in 1..MaxTasks :
          fired'[i].n # fired[i].n
             => /\ ~recent_run(tick.tasks[i], tick.now)
                /\ fired[i].n > 0 => fired'[i].at - fired[i].at >= Buffer]_vars

\* C12: the last_run the scheduler writes for a task is never earlier than the
\* last_run it loaded nor than the one it wrote before.
C12_LastRunNeverDecreases ==
    [][\A i \in 1..MaxTasks :
          fired'[i].n # fired[i].n
             => /\ LET l == tick.tasks[i].last_run
                   IN (l.some /\ parse_from_rfc3339(l.text).ok)
                         => fired'[i].at >= parse_from_rfc3339(l.text).at
                /\ fired[i].n > 0 => fired'[i].at >= fired[i].at]_vars

\* C13: after a tick that dispatched a task, the task file holds the new last_run
\* of every task dispatched in it, and the list was saved once in the tick.
C13_StampsSavedOnce ==
    (tick.pc = "sleep" /\ tick.fired # {})
        => /\ \A i \in tick.fired : file.tasks[i].last_run = Some(to_rfc3339(tick.now))
           /\ tick.saves = 1

\* C14: a saved list loads back as the same tasks in the same order with every
\* field equal; after one task's last_run was changed and the list saved again,
\* the reloaded list differs from the first one in that task's last_run only.
C14_RoundTrip ==
    /\ saved.pc # "failed"
    /\ saved.pc = "loaded" => list = saved.first
    /\ saved.pc = "reloaded"
          => /\ list = saved.second
             /\ Len(list) = Len(saved.first)
             /\ \A k \in 1..Len(list) :
                   /\ list[k].last_run # saved.first[k].last_run <=> k = saved.changed
                   /\ [list[k] EXCEPT !.last_run = None]
                         = [saved.first[k] EXCEPT !.last_run = None]

\* a list of two tasks, one of them with escaped characters, was saved, loaded,
\* stamped, saved and loaded again
C14_Reloaded ==
    /\ saved.pc = "reloaded"
    /\ Len(list) = 2
    /\ \E k \in 1..2 : Quote \in {list[k].id[j] : j \in 1..Len(list[k].id)}

\* C21: a ResourceUsage(id) call that finds no handle for id in the registry returns
\* the zero value and not an error, also right after a monitor or a Stop has removed
\* id; and no ResourceUsage call changes the registry, the explicit-stop set or the
\* config store.
C21_UsageZeroWhenAbsent ==
    [][reply'.op = "usage"
       => /\ ~contains_key(reply'.id) => (reply'.res = "Ok" /\ reply'.usage = "zero")
          /\ reply'.res = "Ok"
          /\ UNCHANGED <<processes, explicit_stops, configs, proc, mon, call>>]_vars

\* a call answered with zero while the monitor that has just removed the handle of
\* id is still at work
C21_ZeroAfterRemoval ==
    /\ reply.op = "usage"
    /\ reply.res = "Ok"
    /\ reply.usage = "zero"
    /\ ~contains_key(reply.id)
    /\ \E m \in Slots : mon[m].id = reply.id /\ mon[m].pc = "check_stop"

\* C22: a SendCommand(id, text) call that finds no handle for id returns an error and
\* changes nothing; a call that returns success has appended text and a newline to
\* the input of the handle registered for id; no call changes the registry, the
\* explicit-stop set or the config store (nor a monitor or a Start or Stop call).
C22_SendWritesOrFails ==
    [][reply'.op = "send"
       => LET id == reply'.id
              p == processes[id]
          IN /\ UNCHANGED <<processes, explicit_stops, configs, mon, call>>
             /\ p = NoPid => (reply'.res = "NotRunning" /\ proc' = proc)
             /\ reply'.res # "Ok" => proc' = proc
             /\ reply'.res = "Ok"
                => /\ p # NoPid
                   /\ proc' = [proc EXCEPT ![p].stdin = Append(@, reply'.text \o "\n")]]_vars

\* a call has returned success and its line is the last of the child's input
C22_LineWritten ==
    /\ reply.op = "send"
    /\ reply.res = "Ok"
    /\ contains_key(reply.id)
    /\ proc[processes[reply.id]].stdin = <<"list\n">>

\* C23: the dispatch unit of a command task appends its command string and a newline
\* to the input of the handle that is registered for the target id when the unit
\* looks it up (the write reaches a child that still runs); with no handle, or with
\* no command string in the task, it writes nothing; in every case it leaves the
\* registry, the explicit-stop set and the config store as they were.
C23_CommandTaskWrites ==
    [][reply'.op = "command_task"
       => LET id == reply'.id
              p == processes[id]
          IN /\ UNCHANGED <<processes, explicit_stops, configs, mon, call>>
             /\ proc' = IF p # NoPid /\ reply'.text # "none" /\ proc[p].state = "alive"
                        THEN [proc EXCEPT ![p].stdin = Append(@, reply'.text \o "\n")]
                        ELSE proc]_vars

\* a command task has written its line to the running server
C23_TaskLineWritten ==
    /\ reply.op = "command_task"
    /\ reply.text = "list"
    /\ contains_key(reply.id)
    /\ proc[processes[reply.id]].stdin = <<"list\n">>

\* C24: the exit hook removes every handle that is in the registry when it runs and
\* kills its child: when the hook has finished the registry is empty and no child
\* that was registered is running.
C24_ExitHookDrains ==
    [][reply'.op = "exit_hook"
       => /\ \A i \in Ids : processes'[i] = NoPid
          /\ \A i \in Ids : processes[i] # NoPid => proc'[processes[i]].state # "alive"
          /\ UNCHANGED <<explicit_stops, configs, mon, call>>]_vars

\* the hook has run while both servers were registered and watched: their monitors
\* have not yet polled again
C24_BothDrained ==
    /\ reply.op = "exit_hook"
    /\ \A i \in Ids : processes[i] = NoPid
    /\ \A p \in Pids : proc[p].state # "alive"
    /\ \E m, n \in Slots : /\ mon[m].id = "s1" /\ mon[m].pc = "sleep"
                           /\ mon[n].id = "s2" /\ mon[n].pc = "sleep"

\* C25: a monitor that has seen its child exit and finds the id in the explicit-stop
\* set removes the id from the set before it terminates.
C25_MonitorClearsMark ==
    [][\A m \in Slots :
          ( /\ mon[m].pc = "check_stop"
            /\ mon[m].saw.status = "exited"
            /\ mon[m].id \in explicit_stops
            /\ mon'[m] = NoMon )
          => mon[m].id \notin explicit_stops']_vars

\* C26: a monitor whose poll finds no handle for its id in the registry terminates in
\* that step: it emits no event, spawns nothing and leaves the registry, the
\* explicit-stop set, the config store and every child as they were.
C26_SilentReturn ==
    [][\A m \in Slots :
          ( /\ mon[m].pc = "sleep"
            /\ processes[mon[m].id] = NoPid
            /\ mon'[m] # mon[m] )
          => /\ mon'[m] = NoMon
             /\ emitted' = <<>>
             /\ UNCHANGED <<processes, explicit_stops, configs, proc>>]_vars

\* the monitor of a server that Stop has stopped has returned from its poll
C26_ReturnedAfterStop ==
    /\ reply.op = "monitor_return"
    /\ emitted = <<>>
    /\ call["user"].op = "stop"
    /\ call["user"].res \in {"StoppedGracefully", "StoppedForced"}
    /\ reply.id = call["user"].id
    /\ \A m \in Slots : mon[m] = NoMon

\* C27: at the moment a monitor that restarts its server after the child's exit
\* emits the server-started event for id, id has a handle in the registry (the
\* monitor registers the new handle before it emits the event).
C27_StartedWhenRegistered ==
    \A k \in DOMAIN emitted, m \in Slots :
        ( /\ emitted[k] = server_started(mon[m].id)
          /\ mon[m].pc = "register"
          /\ mon[m].saw.status = "exited" )
        => contains_key(mon[m].id)

\* C28: the monitor emits server-stopped for an exit only after it has removed the
\* registry entry (the exited handle is not in the registry at the emit), the event
\* comes before the read of the explicit-stop set, and the monitor goes on to the
\* restart decision or terminates according to the set as it is at that read.
C28_RemoveEmitRead ==
    [][\A m \in Slots :
          (mon[m].pc = "check_stop" /\ mon'[m] # mon[m])
          => /\ mon[m].child # NoPid => processes[mon[m].id] # mon[m].child
             /\ emitted' # <<>>
             /\ emitted'[1] = server_stopped(mon[m].id)
             /\ \A k \in DOMAIN emitted' : k > 1 => emitted'[k].topic # "server-stopped"
             /\ IF mon[m].id \in explicit_stops
                THEN /\ mon'[m] = NoMon
                     /\ emitted' = <<server_stopped(mon[m].id),
                                     server_log(mon[m].id, "user_initiated")>>
                ELSE /\ mon'[m].pc = "check_conf"
                     /\ emitted' = <<server_stopped(mon[m].id)>>]_vars

\* the events of a monitor that removed the handle and then found the explicit stop
C28_StoppedThenUserInitiated ==
    /\ emitted = <<server_stopped("s1"), server_log("s1", "user_initiated")>>
    /\ ~contains_key("s1")
    /\ "s1" \in explicit_stops

\* C29: when the respawn of an auto-restart fails, the monitor emits the failure log
\* line (and no server-started event) and terminates in that step: it registers
\* nothing and spawns nothing, and the registry, the children and the monitors of
\* every other id are as they were.
C29_RespawnFailureIsLocal ==
    [][\A m \in Slots :
          (mon[m].pc = "respawn" /\ mon'[m] = NoMon)
          => /\ emitted' # <<>>
             /\ emitted'[Len(emitted')] =
                    [topic |-> "server-log", id |-> mon[m].id,
                     text |-> "failed_to_auto_restart"]
             /\ \A k \in DOMAIN emitted' : emitted'[k].topic # "server-started"
             /\ UNCHANGED <<processes, explicit_stops, configs, proc>>
             /\ \A n \in Slots \ {m} : mon'[n] = mon[n]]_vars

\* the respawn of s1 has failed while s2 runs: s1 has no handle and no monitor, s2
\* has its handle, its running child and its monitor
C29_OtherServerRuns ==
    /\ emitted # <<>>
    /\ emitted[Len(emitted)] = server_log("s1", "failed_to_auto_restart")
    /\ ~contains_key("s1")
    /\ \A m \in Slots : mon[m].id # "s1"
    /\ contains_key("s2")
    /\ proc[processes["s2"]].state = "alive"
    /\ \E n \in Slots : mon[n].id = "s2" /\ mon[n].pc = "sleep"

\* C30: the dispatch unit of a restart task whose target id has no stored config
\* changes nothing: none of its steps (taken while no call of the user is in
\* progress) modifies the registry, the explicit-stop set or the config store, and
\* none spawns or ends a process.
C30_NoConfigNoOp ==
    [][( /\ disp' # disp
         /\ call["user"].pc = "idle"
         /\ configs[IF disp.pc = "idle" THEN disp'.id ELSE disp.id] = NoCfg )
       => UNCHANGED <<processes, explicit_stops, configs, proc>>]_vars

\* C31: a stored config and a registry handle are destroyed together; in particular,
\* when a Stop of id has returned after it removed and stopped the handle (and no
\* restart dispatch or restart cycle of a monitor is in progress for id), id has
\* no stored config, as it has no handle.
C31_ConfigGoneAfterStop ==
    \A id \in Ids :
        ( /\ call["user"].op = "stop"
          /\ call["user"].id = id
          /\ call["user"].pc = "ret"
          /\ call["user"].res \in {"StoppedGracefully", "StoppedForced", "Stopped"}
          /\ disp.pc = "idle"
          /\ \A m \in Slots : mon[m].id = id => mon[m].pc = "sleep" )
        => (configs[id] # NoCfg <=> contains_key(id))

\* C32: the scheduler's scan of a task whose enabled flag is false dispatches nothing
\* and leaves the task's last_run as it is, whatever its cron expression and the
\* time; no such task is ever counted as dispatched, and no step changes the last_run
\* of such a task in the file.
C32_DisabledNeverDispatched ==
    [][/\ \A i \in DOMAIN tick.tasks :
            (tick.pc = "scan" /\ tick.i = i /\ ~tick.tasks[i].enabled /\ tick' # tick)
            => /\ units' = units
               /\ fired' = fired
               /\ tick'.tasks[i] = tick.tasks[i]
       /\ \A i \in DOMAIN file.tasks :
            ~file.tasks[i].enabled
            => /\ fired'[i].n = 0
               /\ i \in DOMAIN file'.tasks
               /\ file'.tasks[i] = file.tasks[i]]_vars

\* the scan has passed a disabled task whose cron expression matches every minute,
\* after dispatching the enabled task before it
C32_DisabledSkipped ==
    /\ tick.pc = "scan"
    /\ tick.i = 3
    /\ Len(tick.tasks) = 2
    /\ tick.tasks[1].enabled
    /\ tick.fired = {1}
    /\ ~tick.tasks[2].enabled
    /\ is_time_to_run(tick.tasks[2].cron_expression, local(tick.now))
    /\ ~tick.tasks[2].last_run.some
    /\ fired[2].n = 0

\* C33: the launch strategy is the platform script when it exists, else the
\* managed runtime for a known runtime extension, else native execution; the
\* managed runtime's binary is the explicit override when one is configured, else
\* the runtime bundled in the server directory when present, else the generic one
C33_LaunchPriority ==
    launch.pc = "built" =>
        LET c == launch.config
            d == launch.dir
            phar == ends_with(c.jar_file, DotPhar)
            jar == ends_with(c.jar_file, DotJar)
            script == IF launch.os = "windows" THEN d.run_bat ELSE d.run_sh
        IN  /\ launch.cmd.strategy =
                   IF script THEN "script"
                   ELSE IF jar \/ phar THEN "runtime" ELSE "native"
            /\ launch.cmd.strategy = "runtime" =>
                   launch.cmd.program =
                       IF c.java_path.some THEN name(c.java_path.text)
                       ELSE IF phar /\ d.bin_php THEN join(BinPhp)
                       ELSE IF phar THEN name(Php) ELSE name(Java)

\* every part of C33 but the place of the override: the strategy by priority,
\* and the configured override as the binary of a .jar
C33_StrategyByPriority ==
    launch.pc = "built" =>
        LET c == launch.config
            d == launch.dir
            script == IF launch.os = "windows" THEN d.run_bat ELSE d.run_sh
        IN  /\ launch.cmd.strategy =
                   IF script THEN "script"
                   ELSE IF known_extension(c) THEN "runtime" ELSE "native"
            /\ (launch.cmd.strategy = "runtime" /\ ends_with(c.jar_file, DotJar))
                   => launch.cmd.program =
                          IF c.java_path.some THEN name(c.java_path.text)
                          ELSE name(Java)

\* ---- two servers that the user starts once each, the second of which the user
\* may stop, while the scheduler's restart task works on the first
StopNext ==
    \/ FirstStart(Ids)
    \/ \E id \in Ids \ Solo : StopMark(id)
    \/ StopLock
    \/ StopWait
    \/ UserReturn
    \/ \E t \in Threads : Start(t)
    \/ \E m \in Slots : Monitor(m)
    \/ Dispatch
    \/ \E p \in Pids : ProcessExit(p)

StopSpec == Init /\ [][StopNext]_vars

\* C34: every Stop(id) call on a registered id terminates, the removed child
\* observed exited or force-killed.  A necessary condition, on states: a Stop of a
\* registered id never waits for the processes lock while the holder of that lock
\* waits for a lock that only the holder itself can release.
C34_StopNeverBlocked ==
    ~ ( /\ call["user"].op = "stop"
        /\ call["user"].pc = "stop_lock"
        /\ contains_key(call["user"].id)
        /\ procLock = "disp"
        /\ call["disp"].pc = "start_conf"
        /\ confLock = "disp" )

\* what does hold of C34: a Stop that returned success has removed a child that
\* is not running any more
C34_ReturnedMeansEnded ==
    [][ ( /\ call["user"].pc = "stop_wait"
          /\ call'["user"].pc = "ret" )
        => LET p == call["user"].child
           IN /\ call'["user"].res \in {"StoppedGracefully", "StoppedForced", "Stopped"}
              /\ proc'[p].state # "alive" ]_vars

\* C35: no thread is blocked forever acquiring the registry, explicit-stop or
\* config lock.  On states: no thread waits for a lock that it holds itself (the
\* mutexes are not reentrant, so only the waiting thread could release it).
C35_NoLockDeadlock ==
    \A t \in Threads :
        /\ ~ (call[t].pc = "start_conf" /\ confLock = t)
        /\ ~ (call[t].pc = "stop_lock" /\ procLock = t)

\* C36: no child process is orphaned; in particular, a monitor that registers the
\* child it respawned after an observed exit never overwrites, and so drops, the
\* handle of a process that is still running.
C36_RegisterNeverOverwrites ==
    [][\A m \in Slots :
         ( /\ mon[m].pc = "register" /\ mon'[m].pc = "sleep"
           /\ mon[m].saw.status = "exited" )
         => LET old == processes[mon[m].id]
            IN  old = NoPid \/ proc[old].state # "alive"]_vars

\* C37: a monitor removes from the registry only the handle whose exit it
\* observed: when Stop has removed that handle and a Start has registered a new
\* one since the exit check, its removal step leaves the new handle in place.
C37_RemovesOnlyObserved ==
    [][\A m \in Slots :
         ( /\ mon[m].pc = "remove" /\ mon'[m].pc = "check_stop"
           /\ mon[m].saw.status = "exited"
           /\ proc[mon[m].child].byStop
           /\ processes[mon[m].id] # NoPid )
         => processes'[mon[m].id] = processes[mon[m].id]]_vars

\* C38: one unexpected exit causes at most one server-stopped event and at most
\* one respawn for the id: when a monitor emits server-stopped for the exit it
\* observed, no other monitor has observed the exit of the same child and is
\* about to emit for it too.
C38_OneStoppedPerExit ==
    [][\A m, n \in Slots :
         ( /\ mon[m].pc = "check_stop" /\ mon'[m].pc # "check_stop"
           /\ mon[m].saw.status = "exited" /\ ~mon[m].saw.marked
           /\ n # m
           /\ mon[n].saw.status = "exited" )
         => ~ (mon[n].pc \in {"remove", "check_stop"} /\ mon[n].child = mon[m].child)]_vars

\* C39: a process that runs with auto_restart and for which no Stop has succeeded
\* is restarted when it exits by itself: the monitor that handles such an exit
\* while no Stop is in progress goes on to the restart, whatever explicit-stop
\* marker an earlier operation has left.
C39_StaleMarkNeverSuppresses ==
    [][\A m \in Slots :
         ( /\ mon[m].pc = "check_stop" /\ mon'[m].pc # "check_stop"
           /\ mon[m].saw.status = "exited"
           /\ mon[m].saw.auto_restart
           /\ ~proc[mon[m].child].byStop
           /\ call["user"].op # "stop" )
         => mon'[m].pc = "check_conf"]_vars

\* a task less its last_run
unstamped(task) == [task EXCEPT !.last_run = None]

====
